---- MODULE Spec2Model ----
(***************************************************************************)
(* Model of the league ranking engine of climbinsight-django               *)
(* (src/src/leagues/ranking.py): RankingCalculator with the FQMERules and  *)
(* IFSCRules strategies.                                                   *)
(*                                                                         *)
(* Python values are represented as follows.                               *)
(*   list  -> sequence                                                     *)
(*   dict  -> function whose domain is the set of keys that are present    *)
(*            (a record is a dict with string keys), so "key in d" is      *)
(*            k \in DOMAIN d and d[k] = v is Set(d, k, v)                  *)
(*   date  -> natural number, date.min being DateMin                       *)
(* The ruleset configuration is a JSON document that is not part of the    *)
(* sources; it is an input and is drawn from bounded sets.                 *)
(***************************************************************************)
EXTENDS Integers, Sequences, FiniteSets, TLC

VARIABLES
    rules,                \* class of RankingCalculator.rules: "FQME" | "IFSC"
    config,               \* RankingRule.config, loaded at construction
    results,              \* the caller's list of CompetitionResult
    derogation_athletes,  \* the caller's derogation list (membership only)
    rankings,             \* value returned by the last calculate_rankings
    prev_rankings,        \* <<value returned by the call before the last
                          \* one on the same arguments>>, <<>> if none
    pc,                   \* the operation that returned last
    season_points,        \* value returned by calculate_season_ranking
    qualified,            \* value returned by check_qualification_criteria
    ties_in,              \* list handed to handle_ties by a direct caller
    ties_out,             \* list returned by handle_ties to that caller
    points_table,         \* RankingCalculator.points_table
    call,                 \* arguments of the last call of an operation that
                          \* takes its inputs as arguments
    outcome,              \* how that call ended: [kind |-> "return", value]
                          \* or [kind |-> "raise", exception]
    threads               \* per thread of the host process: the call it
                          \* runs on the calculator, with the call's locals

vars == <<rules, config, results, derogation_athletes, rankings,
          prev_rankings, pc, season_points, qualified, ties_in, ties_out,
          points_table, call, outcome, threads>>

----------------------------------------------------------------------------
(* Bounds of the model *)

MaxResults == 3        \* length of a batch handed to calculate_rankings
MaxTied == 3           \* length of a list handed to handle_ties directly
MaxAthleteResults == 4 \* length of one athlete's result list
MaxSeasonBestN == 3    \* best_n_results for the per-athlete operations

(* Program constants *)

CountbackPlaces == 30  \* range(1, 31) in IFSCRules.handle_ties
DateMin == 0           \* date.min, the default last_competition_date

----------------------------------------------------------------------------
(* Python built-ins *)

\* d[k] = v on a dict
Set(d, k, v) == (k :> v) @@ d

\* d.get(k, default)
Get(d, k, default) == IF k \in DOMAIN d THEN d[k] ELSE default

Min(a, b) == IF a < b THEN a ELSE b

\* Python's list comparison u < v on lists of integers
RECURSIVE LexLess(_, _)
LexLess(u, v) ==
    IF u = <<>> THEN v # <<>>
    ELSE IF v = <<>> THEN FALSE
    ELSE IF Head(u) # Head(v) THEN Head(u) < Head(v)
    ELSE LexLess(Tail(u), Tail(v))

\* list.sort(key=..., reverse=...) / sorted(...): s is the list, key[i] is
\* the key of s[i] (a list of integers; an integer key n is <<n>>).  The
\* sort is stable, also with reverse=True: elements with equal keys keep
\* their relative order.
sort(s, key, reverse) ==
    LET n == Len(s)
        \* before[i][j]: s[i] has to come before s[j]
        before == [i \in 1..n |-> [j \in 1..n |->
                      IF reverse THEN LexLess(key[j], key[i])
                                 ELSE LexLess(key[i], key[j])]]
        \* pos[i]: the place of s[i] in the sorted list
        pos == [i \in 1..n |-> 1 + Cardinality({j \in 1..n :
                      before[j][i] \/ (~before[i][j] /\ j < i)})]
    IN  [p \in 1..n |-> s[CHOOSE i \in 1..n : pos[i] = p]]

\* sum(x for x in s) on a list of integers
RECURSIVE sum(_)
sum(s) == IF s = <<>> THEN 0 ELSE Head(s) + sum(Tail(s))

\* min(x for x in s) on a non-empty list of integers
min(s) == CHOOSE x \in {s[i] : i \in 1..Len(s)} :
              \A i \in 1..Len(s) : x <= s[i]

\* the keys of a dict filled by "if k not in d: d[k] = []" while scanning
\* s: the distinct elements of s in order of first appearance
RECURSIVE dict_keys(_)
dict_keys(s) ==
    IF s = <<>> THEN <<>>
    ELSE LET r == dict_keys(SubSeq(s, 1, Len(s) - 1))
             x == s[Len(s)]
         IN  IF \E i \in 1..Len(r) : r[i] = x THEN r ELSE Append(r, x)

----------------------------------------------------------------------------
(* RankingRule strategies *)

\* keys of the points table built by get_points_table
points_table_keys ==
    IF rules = "FQME" THEN <<"provincial", "regional", "local">>
    ELSE <<"world_cup", "world_championship", "continental">>

get_best_n_results == config.ranking.best_n_results

get_qualification_criteria == config.qualification_criteria

\* the sort one tie-break method applies to the tied athletes (FQMERules)
FQME_apply_method(method, tied_athletes) ==
    IF method = "most_recent" THEN
        sort(tied_athletes,
             [i \in 1..Len(tied_athletes) |->
                 <<Get(tied_athletes[i], "last_competition_date", DateMin)>>],
             TRUE)
    ELSE IF method = "most_provincial" THEN
        sort(tied_athletes,
             [i \in 1..Len(tied_athletes) |->
                 <<Get(Get(tied_athletes[i], "competitions_count", <<>>),
                       "provincial", 0)>>],
             TRUE)
    ELSE tied_athletes   \* head_to_head: pass; any other name: no branch

\* the key of the countback sort: the negated counts of places 1..30
countback_key(x) ==
    [place \in 1..CountbackPlaces |->
        0 - Get(Get(x, "countback_results", <<>>), place, 0)]

\* the sort one tie-break method applies to the tied athletes (IFSCRules)
IFSC_apply_method(method, tied_athletes) ==
    IF method = "countback" THEN
        sort(tied_athletes,
             [i \in 1..Len(tied_athletes) |-> countback_key(tied_athletes[i])],
             TRUE)
    ELSE IF method = "most_recent" THEN
        sort(tied_athletes,
             [i \in 1..Len(tied_athletes) |->
                 <<Get(tied_athletes[i], "last_competition_date", DateMin)>>],
             TRUE)
    ELSE tied_athletes   \* head_to_head: pass; any other name: no branch

\* "for method in tiebreak_methods": the sorts are applied one after the
\* other to the same list
RECURSIVE apply_methods(_, _)
apply_methods(methods, tied_athletes) ==
    IF methods = <<>> THEN tied_athletes
    ELSE apply_methods(Tail(methods),
            IF rules = "FQME"
            THEN FQME_apply_method(Head(methods), tied_athletes)
            ELSE IFSC_apply_method(Head(methods), tied_athletes))

\* "Update rankings with resolved ties": entry written back for one member
\* of a run of equal points
tied_entry(athlete, tied_athletes, current_rank) ==
    Set(Set(athlete, "rank", current_rank), "tied_with",
        LET others == SelectSeq(tied_athletes,
                LAMBDA a : a.points = athlete.points
                           /\ a.athlete_id # athlete.athlete_id)
        IN  [k \in 1..Len(others) |-> others[k].athlete_id])

\* the while loop of handle_ties; start is the 1-based index of the first
\* entry not yet visited (i + 1 in the source), so current_rank = start
RECURSIVE ties_loop(_, _)
ties_loop(rs, start) ==
    IF start > Len(rs) THEN rs
    ELSE
      LET current_points == rs[start].points
          \* last index of the run of equal points that begins at start
          last == CHOOSE e \in start..Len(rs) :
                    /\ \A k \in start..e : rs[k].points = current_points
                    /\ (e = Len(rs) \/ rs[e + 1].points # current_points)
          tied_athletes ==
              apply_methods(config.ranking.tiebreak.methods,
                            SubSeq(rs, start, last))
          updated ==
              IF last - start + 1 > 1
              THEN [j \in 1..Len(rs) |->
                      IF j >= start /\ j <= last
                      THEN tied_entry(tied_athletes[j - start + 1],
                                      tied_athletes, start)
                      ELSE rs[j]]
              ELSE rs
      IN  ties_loop(updated, last + 1)

\* FQMERules.handle_ties / IFSCRules.handle_ties (the two bodies differ in
\* the methods they know, see FQME_apply_method and IFSC_apply_method)
handle_ties(rs) ==
    ties_loop(sort(rs, [i \in 1..Len(rs) |-> <<rs[i].points>>], TRUE), 1)

----------------------------------------------------------------------------
(* RankingCalculator *)

\* self.best_n_results, copied from the rules at construction
best_n_results == get_best_n_results

\* calculate_season_ranking with the sort ascending (reverse dropped): the
\* sum of the smallest results
calculate_season_ranking_ascending(rs) ==
    IF rs = <<>> THEN 0
    ELSE
      LET sorted_results ==
              sort(rs, [i \in 1..Len(rs) |-> <<rs[i].points>>], FALSE)
          best_results ==
              SubSeq(sorted_results, 1, Min(best_n_results, Len(rs)))
      IN  sum([i \in 1..Len(best_results) |-> best_results[i].points])

\* calculate_season_ranking: sum of the first best_n_results entries of
\* the results sorted by points, descending
calculate_season_ranking(rs) ==
    IF rs = <<>> THEN 0
    ELSE
      LET sorted_results ==
              sort(rs, [i \in 1..Len(rs) |-> <<rs[i].points>>], TRUE)
          best_results ==
              SubSeq(sorted_results, 1, Min(best_n_results, Len(rs)))
      IN  sum([i \in 1..Len(best_results) |-> best_results[i].points])

\* the second pass reading the derogated athlete's points from its entry,
\* which the first pass has set to 0
RECURSIVE redistribute_loop_current_points(_, _, _)
redistribute_loop_current_points(rs, i, derogation_points) ==
    IF i > Len(rs) THEN rs
    ELSE IF rs[i].under_derogation THEN
      LET free == {k \in (i + 1)..Len(rs) : ~rs[k].under_derogation}
      IN  IF free # {} THEN
            LET next_athlete_idx == CHOOSE k \in free : \A m \in free : k <= m
                next_athlete ==
                    Set(Set(Set(rs[next_athlete_idx],
                        "points", rs[i].points),
                        "points_source_athlete", rs[i].athlete_id),
                        "points_source_ranking", rs[i].original_ranking)
            IN  redistribute_loop_current_points(
                    [rs EXCEPT ![next_athlete_idx] = next_athlete],
                    i + 1, derogation_points)
          ELSE redistribute_loop_current_points(rs, i + 1, derogation_points)
    ELSE redistribute_loop_current_points(rs, i + 1, derogation_points)

\* the second pass with "+=" in place of "=": the recipient keeps its own
\* points and the derogated athlete's points are added
RECURSIVE redistribute_loop_adds(_, _, _)
redistribute_loop_adds(rs, i, derogation_points) ==
    IF i > Len(rs) THEN rs
    ELSE IF rs[i].under_derogation THEN
      LET free == {k \in (i + 1)..Len(rs) : ~rs[k].under_derogation}
      IN  IF free # {} THEN
            LET next_athlete_idx == CHOOSE k \in free : \A m \in free : k <= m
                next_athlete ==
                    Set(Set(Set(rs[next_athlete_idx],
                        "points", rs[next_athlete_idx].points
                            + derogation_points[rs[i].athlete_id].points),
                        "points_source_athlete", rs[i].athlete_id),
                        "points_source_ranking", rs[i].original_ranking)
            IN  redistribute_loop_adds(
                    [rs EXCEPT ![next_athlete_idx] = next_athlete],
                    i + 1, derogation_points)
          ELSE redistribute_loop_adds(rs, i + 1, derogation_points)
    ELSE redistribute_loop_adds(rs, i + 1, derogation_points)

\* the second pass of _handle_derogations for method next_athlete, from
\* index i on: every derogated entry overwrites the points of the first
\* entry after it that is not derogated
RECURSIVE redistribute_loop(_, _, _)
redistribute_loop(rs, i, derogation_points) ==
    IF i > Len(rs) THEN rs
    ELSE IF rs[i].under_derogation THEN
      LET free == {k \in (i + 1)..Len(rs) : ~rs[k].under_derogation}
      IN  IF free # {} THEN
            LET next_athlete_idx == CHOOSE k \in free : \A m \in free : k <= m
                next_athlete ==
                    Set(Set(Set(rs[next_athlete_idx],
                        "points", derogation_points[rs[i].athlete_id].points),
                        "points_source_athlete", rs[i].athlete_id),
                        "points_source_ranking", rs[i].original_ranking)
            IN  redistribute_loop(
                    [rs EXCEPT ![next_athlete_idx] = next_athlete],
                    i + 1, derogation_points)
          ELSE redistribute_loop(rs, i + 1, derogation_points)
    ELSE redistribute_loop(rs, i + 1, derogation_points)

\* _handle_derogations without the test of the enabled flag: the points of
\* the derogated athletes are set to 0 under every policy
_handle_derogations_ignores_enabled(rs) ==
    LET zeroed ==
            [i \in 1..Len(rs) |->
                IF rs[i].under_derogation
                THEN Set(Set(rs[i], "points", 0),
                         "points_redistributed", TRUE)
                ELSE rs[i]]
        resorted ==
            sort(zeroed,
                 [i \in 1..Len(zeroed) |-> <<zeroed[i].points>>], TRUE)
    IN  [i \in 1..Len(resorted) |-> Set(resorted[i], "ranking", i)]

\* _handle_derogations
_handle_derogations(rs) ==
    LET derogation_config == Get(config, "derogation", [enabled |-> FALSE])
    IN
    IF ~Get(derogation_config, "enabled", FALSE) THEN rs
    ELSE
      LET \* first pass
          derogated == {i \in 1..Len(rs) : rs[i].under_derogation}
          derogation_points ==
              [a \in {rs[i].athlete_id : i \in derogated} |->
                  LET i == CHOOSE k \in derogated :
                             /\ rs[k].athlete_id = a
                             /\ \A m \in derogated :
                                   rs[m].athlete_id = a => m <= k
                  IN  [points |-> rs[i].points,
                       ranking |-> rs[i].original_ranking]]
          zeroed ==
              [i \in 1..Len(rs) |->
                  IF rs[i].under_derogation
                  THEN Set(Set(rs[i], "points", 0),
                           "points_redistributed", TRUE)
                  ELSE rs[i]]
          \* second pass
          redistributed ==
              IF derogation_config.rules.points_handling = "redistribute"
                 /\ derogation_config.point_redistribution.method
                        = "next_athlete"
              THEN redistribute_loop(
                      sort(zeroed,
                           [i \in 1..Len(zeroed) |->
                               <<zeroed[i].original_ranking>>],
                           FALSE),
                      1, derogation_points)
              ELSE zeroed
          \* final pass
          resorted ==
              sort(redistributed,
                   [i \in 1..Len(redistributed) |->
                       <<redistributed[i].points>>],
                   TRUE)
      IN  [i \in 1..Len(resorted) |->
              LET ranked == Set(resorted[i], "ranking", i)
              IN  IF ranked.under_derogation
                  THEN Set(ranked, "derogation_note",
                           derogation_config.rules.display_note)
                  ELSE ranked]

\* ranking_entry that flags no athlete as under derogation
ranking_entry_never_derogated(athlete_id, rs, derog) ==
    LET total_points == calculate_season_ranking(rs)
    IN  [athlete_id |-> athlete_id,
         points |-> total_points,
         original_points |-> total_points,
         num_competitions |-> Len(rs),
         best_result |-> min([i \in 1..Len(rs) |-> rs[i].placement]),
         competitions_count |->
             [level \in {points_table_keys[k] :
                            k \in 1..Len(points_table_keys)} |->
                 Len(SelectSeq(rs,
                        LAMBDA r : r.competition_level = level))],
         under_derogation |-> FALSE]

\* the entry calculate_rankings builds for one athlete of a category
ranking_entry(athlete_id, rs, derog) ==
    LET total_points == calculate_season_ranking(rs)
    IN  [athlete_id |-> athlete_id,
         points |-> total_points,
         original_points |-> total_points,
         num_competitions |-> Len(rs),
         best_result |-> min([i \in 1..Len(rs) |-> rs[i].placement]),
         competitions_count |->
             [level \in {points_table_keys[k] :
                            k \in 1..Len(points_table_keys)} |->
                 Len(SelectSeq(rs,
                        LAMBDA r : r.competition_level = level))],
         under_derogation |-> athlete_id \in derog]

\* category_entries without the sort by points: original_ranking is the
\* position in the order in which the athletes appear in the batch
category_entries_unsorted(cat_results, derog) ==
    LET athlete_ids ==
            dict_keys([i \in 1..Len(cat_results) |->
                          cat_results[i].athlete_id])
        entries ==
            [k \in 1..Len(athlete_ids) |->
                ranking_entry(athlete_ids[k],
                    SelectSeq(cat_results,
                        LAMBDA r : r.athlete_id = athlete_ids[k]),
                    derog)]
    IN  [i \in 1..Len(entries) |-> Set(entries[i], "original_ranking", i)]

\* the first part of the body of "for category, cat_results in
\* category_results.items()": the entries of the athletes of the category,
\* sorted by points and numbered
category_entries(cat_results, derog) ==
    LET athlete_ids ==
            dict_keys([i \in 1..Len(cat_results) |->
                          cat_results[i].athlete_id])
        entries ==
            [k \in 1..Len(athlete_ids) |->
                ranking_entry(athlete_ids[k],
                    SelectSeq(cat_results,
                        LAMBDA r : r.athlete_id = athlete_ids[k]),
                    derog)]
        by_points ==
            sort(entries,
                 [i \in 1..Len(entries) |-> <<entries[i].points>>], TRUE)
    IN  [i \in 1..Len(by_points) |->
            Set(by_points[i], "original_ranking", i)]

\* the body of "for category, cat_results in category_results.items()"
category_rankings(cat_results, derog) ==
    LET with_original == category_entries(cat_results, derog)
    IN  handle_ties(IF derog # {} THEN _handle_derogations(with_original)
                    ELSE with_original)

\* calculate_rankings that ranks the whole batch under every category
calculate_rankings_ungrouped(rs, derog) ==
    LET categories ==
            dict_keys([i \in 1..Len(rs) |-> rs[i].category])
    IN  [c \in 1..Len(categories) |->
            [category |-> categories[c],
             rankings |-> category_rankings(rs, derog)]]

\* calculate_rankings: the returned dict as the list of its items, in
\* insertion order
calculate_rankings(rs, derog) ==
    LET categories ==
            dict_keys([i \in 1..Len(rs) |-> rs[i].category])
    IN  [c \in 1..Len(categories) |->
            [category |-> categories[c],
             rankings |->
                 category_rankings(
                     SelectSeq(rs, LAMBDA r : r.category = categories[c]),
                     derog)]]

\* check_qualification_criteria without the test of the number of results
check_qualification_criteria_no_count(athlete_results) ==
    LET criteria == get_qualification_criteria
    IN  IF "min_provincial" \in DOMAIN criteria
           /\ Len(SelectSeq(athlete_results,
                   LAMBDA r : r.competition_level = "provincial"))
                < criteria.min_provincial
        THEN FALSE
        ELSE calculate_season_ranking(athlete_results)
                >= criteria.min_points

\* check_qualification_criteria
check_qualification_criteria(athlete_results) ==
    LET criteria == get_qualification_criteria
    IN  IF Len(athlete_results) < criteria.min_competitions THEN FALSE
        ELSE IF "min_provincial" \in DOMAIN criteria
                /\ Len(SelectSeq(athlete_results,
                        LAMBDA r : r.competition_level = "provincial"))
                     < criteria.min_provincial
        THEN FALSE
        ELSE calculate_season_ranking(athlete_results)
                >= criteria.min_points

----------------------------------------------------------------------------
(* Inputs: configuration documents and result records *)

Categories == <<"senior", "junior">>

PointValues == {50, 100}

\* ranking.best_n_results of the rulesets of the batch computations
BestNValues == {1, 2}

\* the methods in the order of the docstrings of handle_ties
DocMethods(r) ==
    IF r = "FQME" THEN <<"head_to_head", "most_recent", "most_provincial">>
    ELSE <<"countback", "head_to_head", "most_recent">>

DerogationConfigs ==
    {[enabled |-> FALSE]} \cup
    {[enabled |-> TRUE,
      rules |-> [points_handling |-> h, display_note |-> "derogation"],
      point_redistribution |-> [method |-> "next_athlete"]] :
        h \in {"redistribute", "keep", "zero"}}

RulesetConfig(n, methods, criteria, derogation) ==
    [ranking |-> [best_n_results |-> n, tiebreak |-> [methods |-> methods]],
     qualification_criteria |-> criteria,
     derogation |-> derogation]

\* a CompetitionResult of the batches: a first place, worth 100 points at
\* the base level of the points table and 50 points at its last level, on
\* day d
CompetitionResult(a, c, p, d) ==
    [placement |-> 1, points |-> p,
     competition_level |-> IF p = 100 THEN points_table_keys[1]
                                      ELSE points_table_keys[3],
     date |-> d, category |-> c, athlete_id |-> a]

\* athlete ids and categories are only compared for equality, so a batch
\* is taken up to renaming: the ids 1, 2, ... and the categories appear in
\* this order for the first time
MaxSeen(s) == IF s = {} THEN 0 ELSE CHOOSE x \in s : \A y \in s : y <= x

NextAthletes(rs) ==
    1..(1 + MaxSeen({rs[i].athlete_id : i \in 1..Len(rs)}))

NextCategories(rs) ==
    {Categories[k] : k \in 1..Min(Len(Categories),
        1 + Cardinality({rs[i].category : i \in 1..Len(rs)}))}

\* the threads of the host process that call the calculator
Threads == {1, 2}

\* a thread that runs no call
IdleThread ==
    [pc |-> "idle", op |-> "", results |-> <<>>, derogation_athletes |-> {},
     categories |-> <<>>, category |-> 1, category_rankings |-> <<>>,
     rankings |-> <<>>, qualified |-> FALSE]

----------------------------------------------------------------------------
(* Actions *)

\* the persistence layer adds a result to the batch of the next call; the
\* competitions of a league take place one after the other, on the days
\* 1, 2, ...
ReceiveResult ==
    /\ pc = "idle"
    /\ Len(results) < MaxResults
    /\ \E a \in NextAthletes(results), c \in NextCategories(results),
          p \in PointValues :
          results' = Append(results,
                        CompetitionResult(a, c, p, Len(results) + 1))
    /\ UNCHANGED <<rules, config, derogation_athletes, rankings,
                   prev_rankings, pc, season_points, qualified,
                   ties_in, ties_out>>
    /\ UNCHANGED <<points_table, call, outcome, threads>>

\* League.add_derogation: an athlete of the batch is put under derogation
add_derogation ==
    /\ pc = "idle"
    /\ \E a \in {results[i].athlete_id : i \in 1..Len(results)} :
          /\ a \notin derogation_athletes
          /\ derogation_athletes' = derogation_athletes \cup {a}
    /\ UNCHANGED <<rules, config, results, rankings, prev_rankings,
                   pc, season_points, qualified, ties_in, ties_out>>
    /\ UNCHANGED <<points_table, call, outcome, threads>>

\* calculate_rankings zeroing the points of the derogated athletes in the
\* caller's records instead of in its own entries
CalculateRankings_writes_results ==
    /\ pc = "idle" \/ (pc = "calculate_rankings" /\ prev_rankings = <<>>)
    /\ rankings' = calculate_rankings(results, derogation_athletes)
    /\ results' = [i \in 1..Len(results) |->
                      IF results[i].athlete_id \in derogation_athletes
                      THEN [results[i] EXCEPT !.points = 0]
                      ELSE results[i]]
    /\ prev_rankings' = IF pc = "calculate_rankings" THEN <<rankings>>
                                                     ELSE <<>>
    /\ pc' = "calculate_rankings"
    /\ UNCHANGED <<rules, config, derogation_athletes,
                   season_points, qualified, ties_in, ties_out>>
    /\ UNCHANGED <<points_table, call, outcome, threads>>

\* RankingCalculator.calculate_rankings(results, derogation_athletes): the
\* call builds its output from fresh lists and dicts and writes neither
\* its arguments nor the calculator; a batch is computed and then computed
\* once more on the same arguments
CalculateRankings ==
    /\ pc = "idle" \/ (pc = "calculate_rankings" /\ prev_rankings = <<>>)
    /\ rankings' = calculate_rankings(results, derogation_athletes)
    /\ prev_rankings' = IF pc = "calculate_rankings" THEN <<rankings>>
                                                     ELSE <<>>
    /\ pc' = "calculate_rankings"
    /\ UNCHANGED <<rules, config, results, derogation_athletes,
                   season_points, qualified, ties_in, ties_out>>
    /\ UNCHANGED <<points_table, call, outcome, threads>>

Init ==
    /\ rules = "FQME"
    /\ config \in {RulesetConfig(n, DocMethods(rules),
                       [min_competitions |-> 1, min_points |-> 0], d) :
                     n \in BestNValues, d \in DerogationConfigs}
    /\ results = <<>>
    /\ derogation_athletes = {}
    /\ rankings = <<>>
    /\ prev_rankings = <<>>
    /\ pc = "idle"
    /\ season_points = 0
    /\ qualified = FALSE
    /\ ties_in = <<>>
    /\ ties_out = <<>>
    /\ points_table = <<>>
    /\ call = <<>>
    /\ outcome = <<>>
    /\ threads = [t \in Threads |-> IdleThread]

Next == ReceiveResult \/ add_derogation \/ CalculateRankings

Spec == Init /\ [][Next]_vars

----------------------------------------------------------------------------
(* Properties of calculate_rankings, checked under Spec *)

\* the per-category lists of the last returned value
CategoryLists == {rankings[c].rankings : c \in 1..Len(rankings)}

Returned == pc = "calculate_rankings"

DerogationEnabled == Get(config.derogation, "enabled", FALSE)

PointsHandling(h) ==
    DerogationEnabled /\ config.derogation.rules.points_handling = h

\* C1: with derogation enabled and points_handling = redistribute, in every
\* category the final points of all entries sum up to the sum of their
\* original_points.
C1_RedistributeConservesTotal ==
    (Returned /\ PointsHandling("redistribute")) =>
        \A L \in CategoryLists :
            sum([i \in 1..Len(L) |-> L[i].points])
                = sum([i \in 1..Len(L) |-> L[i].original_points])

\* the entry of L that follows the entry at i by original_ranking among the
\* entries that are not derogated, as a set of indexes (empty or singleton)
FirstFreeAfter(L, i) ==
    {j \in 1..Len(L) :
        /\ ~L[j].under_derogation
        /\ L[j].original_ranking > L[i].original_ranking
        /\ \A k \in 1..Len(L) :
              (~L[k].under_derogation
                 /\ L[k].original_ranking > L[i].original_ranking)
              => L[j].original_ranking <= L[k].original_ranking}

\* C2 as stated: under redistribute, for every derogated athlete D with a
\* non-derogated athlete after it, the first non-derogated athlete after D
\* by original_ranking ends with exactly D's original points, also when
\* several derogated athletes are consecutive.
C2_EveryDerogatedReachesRecipient ==
    (Returned /\ PointsHandling("redistribute")) =>
        \A L \in CategoryLists : \A i \in 1..Len(L) :
            L[i].under_derogation =>
                \A j \in FirstFreeAfter(L, i) :
                    L[j].points = L[i].original_points

\* C2 amended: under redistribute, a derogated athlete whose immediate
\* successor by original_ranking is not derogated hands that successor
\* exactly its original points; of several consecutive derogated athletes
\* only the last one does.
C2_LastDerogatedReachesRecipient ==
    (Returned /\ PointsHandling("redistribute")) =>
        \A L \in CategoryLists : \A i \in 1..Len(L) :
            L[i].under_derogation =>
                \A j \in FirstFreeAfter(L, i) :
                    L[j].original_ranking = L[i].original_ranking + 1
                        => L[j].points = L[i].original_points

\* C2 witness: a derogated athlete is directly followed by a non-derogated
\* athlete of fewer points, which ends with the derogated athlete's points.
C2_Witness ==
    /\ Returned /\ PointsHandling("redistribute")
    /\ \E L \in CategoryLists : \E i, j \in 1..Len(L) :
          /\ L[i].under_derogation /\ ~L[j].under_derogation
          /\ L[j].original_ranking = L[i].original_ranking + 1
          /\ L[j].original_points < L[i].original_points
          /\ L[j].points = L[i].original_points

HasFinalRank(e) == "ranking" \in DOMAIN e \/ "rank" \in DOMAIN e

FinalRank(e) == IF "ranking" \in DOMAIN e THEN e.ranking ELSE e.rank

\* C3: for every batch and derogation list, every entry of every returned
\* category list carries a final rank value, and the values are 1..K by
\* position except where entries of equal points share one value.
C3_DenseFinalRanks ==
    Returned =>
        \A L \in CategoryLists : \A p \in 1..Len(L) :
            /\ HasFinalRank(L[p])
            /\ \/ FinalRank(L[p]) = p
               \/ \E q \in 1..Len(L) :
                     /\ q # p
                     /\ L[q].points = L[p].points
                     /\ HasFinalRank(L[q])
                     /\ FinalRank(L[q]) = FinalRank(L[p])

\* C8: with derogation enabled and points_handling = keep, every derogated
\* athlete keeps its original season points and is flagged under_derogation.
C8_KeepLeavesPoints ==
    (Returned /\ PointsHandling("keep")) =>
        \A L \in CategoryLists : \A i \in 1..Len(L) :
            L[i].athlete_id \in derogation_athletes =>
                /\ L[i].under_derogation
                /\ L[i].points = L[i].original_points

C12_OriginalRankingByPoints ==
    Returned =>
        \A L \in CategoryLists :
            /\ {L[i].original_ranking : i \in 1..Len(L)} = 1..Len(L)
            /\ \A i, j \in 1..Len(L) :
                  L[i].original_points > L[j].original_points
                      => L[i].original_ranking < L[j].original_ranking

\* C12 witness: the athlete with the most season points appears in the
\* batch after another one, is derogated and ends last with 0 points, and
\* still has original_ranking 1.
C12_Witness ==
    /\ Returned /\ DerogationEnabled
    /\ \E L \in CategoryLists :
          /\ Len(L) >= 2
          /\ L[Len(L)].under_derogation
          /\ L[Len(L)].points = 0
          /\ L[Len(L)].original_ranking = 1
          /\ L[Len(L)].original_points > L[1].original_points
          /\ L[Len(L)].athlete_id > L[1].athlete_id

\* C13: when the derogation list is empty or the derogation policy is not
\* enabled, every returned entry has points = original_points and no entry
\* names a points_source_athlete.
C13_NoDerogationNoChange ==
    (Returned /\ (derogation_athletes = {} \/ ~DerogationEnabled)) =>
        \A L \in CategoryLists : \A i \in 1..Len(L) :
            /\ L[i].points = L[i].original_points
            /\ "points_source_athlete" \notin DOMAIN L[i]

\* C13 witness: the policy is not enabled, an athlete of the derogation
\* list is ranked before another athlete and has kept its points.
C13_Witness ==
    /\ Returned /\ ~DerogationEnabled
    /\ \E L \in CategoryLists :
          /\ Len(L) >= 2
          /\ L[1].athlete_id \in derogation_athletes
          /\ L[1].under_derogation
          /\ L[1].points > 0

\* the date of the latest CompetitionResult of athlete a in category c
LatestDate(a, c) ==
    MaxSeen({results[i].date : i \in {k \in 1..Len(results) :
                results[k].athlete_id = a /\ results[k].category = c}})

\* C14: the configured methods include most_recent; of two athletes of a
\* category with equal final points that no other configured method tells
\* apart (same number of provincial competitions), the one whose latest
\* result is later comes first in the returned list.
C14_LaterLastResultFirst ==
    (Returned /\ \E k \in 1..Len(config.ranking.tiebreak.methods) :
                    config.ranking.tiebreak.methods[k] = "most_recent") =>
        \A c \in 1..Len(rankings) :
            LET L == rankings[c].rankings
            IN  \A i, j \in 1..Len(L) :
                    (/\ L[i].points = L[j].points
                     /\ L[i].competitions_count.provincial
                           = L[j].competitions_count.provincial
                     /\ LatestDate(L[i].athlete_id, rankings[c].category)
                           > LatestDate(L[j].athlete_id, rankings[c].category))
                    => i < j

----------------------------------------------------------------------------
(* Direct calls of handle_ties *)

KnownMethods(r) == {DocMethods(r)[k] : k \in 1..Len(DocMethods(r))}

\* the configured method lists: the list of the docstring and every list
\* of at most two distinct known methods
MethodLists(r) ==
    {DocMethods(r)} \cup
    {m \in UNION {[1..n -> KnownMethods(r)] : n \in 0..2} :
        \A i, j \in 1..Len(m) : i # j => m[i] # m[j]}

\* place -> number of times achieved
CountbackInputs == {(1 :> 2) @@ (2 :> 1), (1 :> 1) @@ (2 :> 3)}

\* what distinguishes the entries handed to handle_ties
TieAttributes(r) ==
    IF r = "FQME"
    THEN [points : PointValues, last_competition_date : {1, 2},
          competitions_count :
              {[provincial |-> c, regional |-> 0, local |-> 0] : c \in {0, 1}}]
    ELSE [points : PointValues, last_competition_date : {1, 2},
          countback_results : CountbackInputs]

\* RankingRule.handle_ties(rankings) called on a list of entries of
\* distinct athletes; the list is sorted and updated in place and returned
HandleTies ==
    /\ pc = "idle"
    /\ \E n \in 1..MaxTied : \E attrs \in [1..n -> TieAttributes(rules)] :
          LET rs == [i \in 1..n |-> Set(attrs[i], "athlete_id", i)]
          IN  /\ ties_in' = rs
              /\ ties_out' = handle_ties(rs)
    /\ pc' = "handle_ties"
    /\ UNCHANGED <<rules, config, results, derogation_athletes, rankings,
                   prev_rankings, season_points, qualified>>
    /\ UNCHANGED <<points_table, call, outcome, threads>>

InitTies ==
    /\ rules \in {"FQME", "IFSC"}
    /\ config \in {RulesetConfig(1, m,
                       [min_competitions |-> 1, min_points |-> 0],
                       [enabled |-> FALSE]) : m \in MethodLists(rules)}
    /\ results = <<>>
    /\ derogation_athletes = {}
    /\ rankings = <<>>
    /\ prev_rankings = <<>>
    /\ pc = "idle"
    /\ season_points = 0
    /\ qualified = FALSE
    /\ ties_in = <<>>
    /\ ties_out = <<>>
    /\ points_table = <<>>
    /\ call = <<>>
    /\ outcome = <<>>
    /\ threads = [t \in Threads |-> IdleThread]

NextTies == HandleTies

SpecTies == InitTies /\ [][NextTies]_vars

----------------------------------------------------------------------------
(* Properties of handle_ties, checked under SpecTies *)

TiesReturned == pc = "handle_ties"

Methods == config.ranking.tiebreak.methods

\* position of the entry of athlete a in the returned list
PosOut(a) == CHOOSE p \in 1..Len(ties_out) : ties_out[p].athlete_id = a

\* pairs of distinct athletes of one run of equal points
TiedPairs ==
    {pr \in (1..Len(ties_in)) \X (1..Len(ties_in)) :
        pr[1] # pr[2] /\ ties_in[pr[1]].points = ties_in[pr[2]].points}

\* [count of 1st places, ..., count of 30th places]
PlaceVector(x) ==
    [place \in 1..CountbackPlaces |->
        Get(Get(x, "countback_results", <<>>), place, 0)]

\* C4: IFSC countback puts the athlete with the lexicographically greater
\* place vector first, among athletes of equal points (and equal last
\* competition date, so that no other method tells them apart).
C4_CountbackGreaterVectorFirst ==
    (TiesReturned /\ rules = "IFSC"
        /\ \E k \in 1..Len(Methods) : Methods[k] = "countback") =>
        \A pr \in TiedPairs :
            LET a == ties_in[pr[1]]
                b == ties_in[pr[2]]
            IN  (/\ a.last_competition_date = b.last_competition_date
                 /\ LexLess(PlaceVector(b), PlaceVector(a)))
                => PosOut(a.athlete_id) < PosOut(b.athlete_id)

\* method m, applied alone to b followed by a, moves a in front of b
Prefers(m, a, b) ==
    LET one == IF rules = "FQME" THEN FQME_apply_method(m, <<b, a>>)
                                 ELSE IFSC_apply_method(m, <<b, a>>)
    IN  one[1].athlete_id = a.athlete_id

Separates(m, a, b) == Prefers(m, a, b) \/ Prefers(m, b, a)

\* C5: the first configured method that tells two tied athletes apart
\* decides their order; later methods only order what it leaves equal.
C5_FirstMethodHasPriority ==
    TiesReturned =>
        \A pr \in TiedPairs :
            LET a == ties_in[pr[1]]
                b == ties_in[pr[2]]
            IN  \A k \in 1..Len(Methods) :
                    (/\ Prefers(Methods[k], a, b)
                     /\ \A h \in 1..(k - 1) : ~Separates(Methods[h], a, b))
                    => PosOut(a.athlete_id) < PosOut(b.athlete_id)

\* the entries of a and b share a rank value and list each other
CrossListed(a, b) ==
    LET ea == ties_out[PosOut(a)]
        eb == ties_out[PosOut(b)]
    IN  /\ "rank" \in DOMAIN ea /\ "rank" \in DOMAIN eb
        /\ ea.rank = eb.rank
        /\ \E k \in 1..Len(ea.tied_with) : ea.tied_with[k] = b
        /\ \E k \in 1..Len(eb.tied_with) : eb.tied_with[k] = a

\* C6: two athletes of one run of equal points share the rank value and
\* list each other in tied_with exactly if no configured method tells them
\* apart.
C6_TiedIffNotSeparated ==
    TiesReturned =>
        \A pr \in TiedPairs :
            LET a == ties_in[pr[1]]
                b == ties_in[pr[2]]
            IN  CrossListed(a.athlete_id, b.athlete_id)
                <=> ~\E k \in 1..Len(Methods) : Separates(Methods[k], a, b)

----------------------------------------------------------------------------
(* Per-athlete operations: calculate_season_ranking and                    *)
(* check_qualification_criteria                                            *)

\* <<points, competition_level>> of the results of the athlete
SeasonResults ==
    {<<100, "provincial">>, <<90, "provincial">>, <<80, "provincial">>,
     <<80, "regional">>, <<70, "regional">>}

CriteriaInputs ==
    {[min_competitions |-> 3, min_points |-> 180],
     [min_competitions |-> 3, min_points |-> 180, min_provincial |-> 2]}

\* the persistence layer adds a result of the athlete whose season is
\* computed
ReceiveAthleteResult ==
    /\ pc = "idle"
    /\ Len(results) < MaxAthleteResults
    /\ \E r \in SeasonResults :
          results' = Append(results,
              [placement |-> 1, points |-> r[1], competition_level |-> r[2],
               date |-> 1, category |-> Categories[1], athlete_id |-> 1])
    /\ UNCHANGED <<rules, config, derogation_athletes, rankings,
                   prev_rankings, pc, season_points, qualified,
                   ties_in, ties_out>>
    /\ UNCHANGED <<points_table, call, outcome, threads>>

\* RankingCalculator.calculate_season_ranking(results)
CalculateSeasonRanking ==
    /\ pc = "idle"
    /\ season_points' = calculate_season_ranking(results)
    /\ pc' = "calculate_season_ranking"
    /\ UNCHANGED <<rules, config, results, derogation_athletes, rankings,
                   prev_rankings, qualified, ties_in, ties_out>>
    /\ UNCHANGED <<points_table, call, outcome, threads>>

\* RankingCalculator.check_qualification_criteria(athlete_results)
CheckQualificationCriteria ==
    /\ pc = "idle"
    /\ qualified' = check_qualification_criteria(results)
    /\ pc' = "check_qualification_criteria"
    /\ UNCHANGED <<rules, config, results, derogation_athletes, rankings,
                   prev_rankings, season_points, ties_in, ties_out>>
    /\ UNCHANGED <<points_table, call, outcome, threads>>

InitSeason ==
    /\ rules = "FQME"
    /\ config \in {RulesetConfig(n, DocMethods(rules), c,
                       [enabled |-> FALSE]) :
                     n \in 1..MaxSeasonBestN, c \in CriteriaInputs}
    /\ results = <<>>
    /\ derogation_athletes = {}
    /\ rankings = <<>>
    /\ prev_rankings = <<>>
    /\ pc = "idle"
    /\ season_points = 0
    /\ qualified = FALSE
    /\ ties_in = <<>>
    /\ ties_out = <<>>
    /\ points_table = <<>>
    /\ call = <<>>
    /\ outcome = <<>>
    /\ threads = [t \in Threads |-> IdleThread]

NextSeason ==
    \/ ReceiveAthleteResult
    \/ CalculateSeasonRanking
    \/ CheckQualificationCriteria
    \/ CalculateRankings

SpecSeason == InitSeason /\ [][NextSeason]_vars

----------------------------------------------------------------------------
(* Properties of the per-athlete operations, checked under SpecSeason *)

RECURSIVE SumOver(_, _)
SumOver(S, f) ==
    IF S = {} THEN 0
    ELSE LET x == CHOOSE y \in S : TRUE
         IN  f[x] + SumOver(S \ {x}, f)

\* the largest total of min(n, Len(rs)) of the results rs
TopSum(rs, n) ==
    LET k == Min(n, Len(rs))
        totals == {SumOver(S, [i \in 1..Len(rs) |-> rs[i].points]) :
                      S \in {T \in SUBSET (1..Len(rs)) : Cardinality(T) = k}}
    IN  CHOOSE m \in totals : \A t \in totals : t <= m

\* C7: the season points are the sum of the best_n_results largest
\* per-competition points (of all of them when there are fewer, 0 for no
\* result), and calculate_rankings stores this value as original_points.
C7_SeasonPointsAreBestN ==
    /\ pc = "calculate_season_ranking" =>
          season_points = TopSum(results, config.ranking.best_n_results)
    /\ (pc = "calculate_rankings" /\ results # <<>>) =>
          rankings[1].rankings[1].original_points
              = TopSum(results, config.ranking.best_n_results)

\* C7 witness: best_n_results = 3 and the points 100, 90, 80, 70 in some
\* order give 270.
C7_Witness ==
    /\ pc = "calculate_season_ranking"
    /\ config.ranking.best_n_results = 3
    /\ Len(results) = 4
    /\ {results[i].points : i \in 1..4} = {100, 90, 80, 70}
    /\ results[1].points < results[2].points
    /\ season_points = 270

ProvincialCount(rs) ==
    Cardinality({i \in 1..Len(rs) : rs[i].competition_level = "provincial"})

\* C10: the athlete qualifies exactly if it has at least min_competitions
\* results, at least min_provincial provincial results when that criterion
\* is configured, and best-N season points of at least min_points.
C10_QualifiesIff ==
    pc = "check_qualification_criteria" =>
        LET criteria == config.qualification_criteria
        IN  qualified <=>
              /\ Len(results) >= criteria.min_competitions
              /\ ("min_provincial" \in DOMAIN criteria
                    => ProvincialCount(results) >= criteria.min_provincial)
              /\ TopSum(results, config.ranking.best_n_results)
                    >= criteria.min_points

\* C10 witness: too few competitions with enough points: not qualified.
C10_Witness ==
    /\ pc = "check_qualification_criteria"
    /\ Len(results) < config.qualification_criteria.min_competitions
    /\ TopSum(results, config.ranking.best_n_results)
          >= config.qualification_criteria.min_points
    /\ ~qualified

----------------------------------------------------------------------------
(* Points table: get_points_table and calculate_points                     *)
(*                                                                         *)
(* A float is represented by the exact fraction [num, den]; the            *)
(* multipliers of the inputs have a power of two as denominator, so the    *)
(* float product of an integer and a multiplier is the exact product.      *)

MaxBatch == 2          \* number of results get_competition_results reads

\* v * multiplier, v an integer
float_mul(v, m) == [num |-> v * m.num, den |-> m.den]

\* int(x) on a float: truncation toward zero
int(x) ==
    IF x.num >= 0 THEN x.num \div x.den ELSE 0 - ((0 - x.num) \div x.den)

\* int(k) on the decimal strings that are the keys of a JSON points map
int_str(k) == CASE k = "1" -> 1 [] k = "2" -> 2 [] k = "3" -> 3

\* {int(k): v for k, v in level.items()}
int_keys(level) ==
    [p \in {int_str(k) : k \in DOMAIN level} |->
        level[CHOOSE k \in DOMAIN level : int_str(k) = p]]

\* {k: int(v * multiplier) for k, v in base.items()}
derived_points(base, multiplier) ==
    [k \in DOMAIN base |-> int(float_mul(base[k], multiplier))]

\* FQMERules.get_points_table / IFSCRules.get_points_table: the first level
\* is read from the configuration, the two others are derived from it
get_points_table ==
    LET ranking_points == config.scoring.lead.ranking_points
        base == int_keys(ranking_points[points_table_keys[1]])
    IN  (points_table_keys[1] :> base)
        @@ (points_table_keys[2] :>
              derived_points(base,
                  ranking_points[points_table_keys[2]].multiplier))
        @@ (points_table_keys[3] :>
              derived_points(base,
                  ranking_points[points_table_keys[3]].multiplier))

\* RankingCalculator.calculate_points
calculate_points(placement, competition_level) ==
    IF competition_level \notin DOMAIN points_table
    THEN [kind |-> "raise", exception |-> "ValueError"]
    ELSE [kind |-> "return",
          value |-> Get(points_table[competition_level], placement, 0)]

\* the loop of LeagueService.get_competition_results over the stored
\* results: calculate_points is called for each of them, no exception is
\* caught, so the first one that is raised ends the loop
RECURSIVE get_competition_results(_, _)
get_competition_results(query, done) ==
    IF query = <<>> THEN [kind |-> "return", value |-> done]
    ELSE LET points == calculate_points(Head(query).ranking,
                                        Head(query).level)
         IN  IF points.kind = "raise" THEN points
             ELSE get_competition_results(Tail(query),
                      Append(done, points.value))

\* inputs
BasePointValues == {4, 5, 100}

Multipliers ==
    {[num |-> 1, den |-> 2], [num |-> 3, den |-> 4], [num |-> 3, den |-> 2]}

ScoringConfigs(r) ==
    LET keys == IF r = "FQME" THEN <<"provincial", "regional", "local">>
                ELSE <<"world_cup", "world_championship", "continental">>
    IN  {[lead |-> [ranking_points |->
            (keys[1] :> (("1" :> b1) @@ ("2" :> b2)))
            @@ (keys[2] :> [multiplier |-> m2])
            @@ (keys[3] :> [multiplier |-> m3])]] :
          b1 \in BasePointValues, b2 \in BasePointValues,
          m2 \in Multipliers, m3 \in Multipliers}

\* the levels of the stored competitions: those of the table and one that
\* no table has
CompetitionLevels ==
    {points_table_keys[k] : k \in 1..Len(points_table_keys)} \cup {"national"}

StoredResults == [ranking : {1, 3}, level : CompetitionLevels]

\* RankingCalculator.__init__
Construct ==
    /\ pc = "idle"
    /\ points_table' = get_points_table
    /\ pc' = "constructed"
    /\ UNCHANGED <<rules, config, results, derogation_athletes, rankings,
                   prev_rankings, season_points, qualified, ties_in,
                   ties_out, call, outcome, threads>>

\* RankingCalculator.calculate_points(placement, competition_level)
CalculatePoints ==
    /\ pc = "constructed"
    /\ \E r \in StoredResults :
          /\ call' = <<r>>
          /\ outcome' = calculate_points(r.ranking, r.level)
    /\ pc' = "calculate_points"
    /\ UNCHANGED <<rules, config, results, derogation_athletes, rankings,
                   prev_rankings, season_points, qualified, ties_in,
                   ties_out, points_table, threads>>

\* LeagueService.get_competition_results on the stored results of a league
GetCompetitionResults ==
    /\ pc = "constructed"
    /\ \E n \in 1..MaxBatch : \E query \in [1..n -> StoredResults] :
          /\ call' = query
          /\ outcome' = get_competition_results(query, <<>>)
    /\ pc' = "get_competition_results"
    /\ UNCHANGED <<rules, config, results, derogation_athletes, rankings,
                   prev_rankings, season_points, qualified, ties_in,
                   ties_out, points_table, threads>>

InitPoints ==
    /\ rules \in {"FQME", "IFSC"}
    /\ config \in {Set(RulesetConfig(1, DocMethods(rules),
                           [min_competitions |-> 1, min_points |-> 0],
                           [enabled |-> FALSE]),
                       "scoring", sc) : sc \in ScoringConfigs(rules)}
    /\ results = <<>>
    /\ derogation_athletes = {}
    /\ rankings = <<>>
    /\ prev_rankings = <<>>
    /\ pc = "idle"
    /\ season_points = 0
    /\ qualified = FALSE
    /\ ties_in = <<>>
    /\ ties_out = <<>>
    /\ points_table = <<>>
    /\ call = <<>>
    /\ outcome = <<>>
    /\ threads = [t \in Threads |-> IdleThread]

NextPoints == Construct \/ CalculatePoints \/ GetCompetitionResults

SpecPoints == InitPoints /\ [][NextPoints]_vars

----------------------------------------------------------------------------
(* Properties of the points table, checked under SpecPoints *)

Constructed == pc # "idle"

\* |t - x| <= 1/2: the integer t is a nearest integer of the float x
IsNearestInteger(t, x) ==
    LET d == t * x.den - x.num
    IN  2 * (IF d >= 0 THEN d ELSE 0 - d) <= x.den

\* C11: every entry of a derived level of the points table is the product
\* of the base points and the level multiplier rounded to a nearest
\* integer.
C11_DerivedPointsAreRounded ==
    Constructed =>
        \A k \in 2..3 : \A p \in DOMAIN points_table[points_table_keys[1]] :
            IsNearestInteger(
                points_table[points_table_keys[k]][p],
                float_mul(points_table[points_table_keys[1]][p],
                    config.scoring.lead.ranking_points[
                        points_table_keys[k]].multiplier))

\* C18: calculate_points with a level that the points table lacks does not
\* raise, and a batch that contains such a result is still computed: one
\* outcome per stored result.
C18_UnknownLevelDoesNotRaise ==
    /\ pc = "calculate_points" => outcome.kind = "return"
    /\ pc = "get_competition_results" =>
          /\ outcome.kind = "return"
          /\ Len(outcome.value) = Len(call)

----------------------------------------------------------------------------
(* Calls from several threads on one RankingCalculator                     *)
(*                                                                         *)
(* A call of calculate_rankings is cut at the calls it makes for a         *)
(* category; between two of its steps the other thread may run.  What a    *)
(* call keeps between its steps are its arguments and its local variables. *)

MaxThreadResults == 2  \* length of the batch of a call made by a thread

\* the batches of the calls of the threads: results of one category, the
\* athlete ids in order of first appearance
ThreadBatches ==
    LET shapes ==
            UNION {[1..n -> [athlete_id : 1..n, points : PointValues]] :
                      n \in 1..MaxThreadResults}
        ordered == {b \in shapes : \A i \in 1..Len(b) :
                       b[i].athlete_id
                         <= 1 + MaxSeen({b[k].athlete_id : k \in 1..(i - 1)})}
    IN  {[i \in 1..Len(b) |->
            CompetitionResult(b[i].athlete_id, Categories[1],
                              b[i].points, i)] : b \in ordered}

\* the derogation lists of the calls of the threads
ThreadDerogations == {{}, {1}}

\* calculate_rankings up to the loop over the categories, with the
\* calculator's best_n_results set from the batch of the call
ThreadCalculateRankings_writes_config(t) ==
    /\ threads[t].pc = "idle"
    /\ \E b \in ThreadBatches, d \in ThreadDerogations :
          /\ threads' = [threads EXCEPT ![t] =
                [IdleThread EXCEPT
                    !.pc = "loop", !.op = "calculate_rankings",
                    !.results = b, !.derogation_athletes = d,
                    !.categories =
                        dict_keys([i \in 1..Len(b) |-> b[i].category])]]
          /\ config' = [config EXCEPT !.ranking.best_n_results = Len(b)]
    /\ UNCHANGED <<rules, results, derogation_athletes, rankings,
                   prev_rankings, pc, season_points, qualified, ties_in,
                   ties_out, points_table, call, outcome>>

\* calculate_rankings(results, derogation_athletes) up to the loop over
\* the categories: the results are grouped by category
ThreadCalculateRankings(t) ==
    /\ threads[t].pc = "idle"
    /\ \E b \in ThreadBatches, d \in ThreadDerogations :
          threads' = [threads EXCEPT ![t] =
              [IdleThread EXCEPT
                  !.pc = "loop", !.op = "calculate_rankings",
                  !.results = b, !.derogation_athletes = d,
                  !.categories =
                      dict_keys([i \in 1..Len(b) |-> b[i].category])]]
    /\ UNCHANGED <<rules, config, results, derogation_athletes, rankings,
                   prev_rankings, pc, season_points, qualified, ties_in,
                   ties_out, points_table, call, outcome>>

\* the loop body up to the numbering: the entries of the current category
\* are built (calculate_season_ranking for each athlete), sorted and
\* numbered
ThreadRankCategory(t) ==
    LET th == threads[t]
    IN  /\ th.pc = "loop"
        /\ threads' = [threads EXCEPT
              ![t].category_rankings =
                  category_entries(
                      SelectSeq(th.results,
                          LAMBDA r : r.category = th.categories[th.category]),
                      th.derogation_athletes),
              ![t].pc = "ranked"]
        /\ UNCHANGED <<rules, config, results, derogation_athletes,
                       rankings, prev_rankings, pc, season_points,
                       qualified, ties_in, ties_out, points_table, call,
                       outcome>>

\* "if derogation_athletes: category_rankings = self._handle_derogations(..)"
ThreadHandleDerogations(t) ==
    LET th == threads[t]
    IN  /\ th.pc = "ranked"
        /\ threads' = [threads EXCEPT
              ![t].category_rankings =
                  IF th.derogation_athletes # {}
                  THEN _handle_derogations(th.category_rankings)
                  ELSE th.category_rankings,
              ![t].pc = "derogated"]
        /\ UNCHANGED <<rules, config, results, derogation_athletes,
                       rankings, prev_rankings, pc, season_points,
                       qualified, ties_in, ties_out, points_table, call,
                       outcome>>

\* "rankings[category] = self.rules.handle_ties(category_rankings)", then
\* the next category, or "return rankings" after the last one
ThreadHandleTies(t) ==
    LET th == threads[t]
    IN  /\ th.pc = "derogated"
        /\ threads' = [threads EXCEPT
              ![t].rankings =
                  Append(th.rankings,
                      [category |-> th.categories[th.category],
                       rankings |-> handle_ties(th.category_rankings)]),
              ![t].category = th.category + 1,
              ![t].pc = IF th.category < Len(th.categories)
                        THEN "loop" ELSE "returned"]
        /\ UNCHANGED <<rules, config, results, derogation_athletes,
                       rankings, prev_rankings, pc, season_points,
                       qualified, ties_in, ties_out, points_table, call,
                       outcome>>

\* check_qualification_criteria(athlete_results) called by a thread
ThreadCheckQualification(t) ==
    /\ threads[t].pc = "idle"
    /\ \E b \in ThreadBatches :
          threads' = [threads EXCEPT ![t] =
              [IdleThread EXCEPT
                  !.pc = "returned",
                  !.op = "check_qualification_criteria",
                  !.results = b,
                  !.qualified = check_qualification_criteria(b)]]
    /\ UNCHANGED <<rules, config, results, derogation_athletes, rankings,
                   prev_rankings, pc, season_points, qualified, ties_in,
                   ties_out, points_table, call, outcome>>

InitThreads ==
    /\ rules = "FQME"
    /\ config = RulesetConfig(1, DocMethods(rules),
                    [min_competitions |-> 2, min_points |-> 100],
                    [enabled |-> TRUE,
                     rules |-> [points_handling |-> "redistribute",
                                display_note |-> "derogation"],
                     point_redistribution |-> [method |-> "next_athlete"]])
    /\ results = <<>>
    /\ derogation_athletes = {}
    /\ rankings = <<>>
    /\ prev_rankings = <<>>
    /\ pc = "idle"
    /\ season_points = 0
    /\ qualified = FALSE
    /\ ties_in = <<>>
    /\ ties_out = <<>>
    /\ points_table = <<>>
    /\ call = <<>>
    /\ outcome = <<>>
    /\ threads = [t \in Threads |-> IdleThread]

NextThreads ==
    \E t \in Threads :
        \/ ThreadCalculateRankings(t)
        \/ ThreadRankCategory(t)
        \/ ThreadHandleDerogations(t)
        \/ ThreadHandleTies(t)
        \/ ThreadCheckQualification(t)

SpecThreads == InitThreads /\ [][NextThreads]_vars

----------------------------------------------------------------------------
(* Properties of concurrent calls, checked under SpecThreads *)

\* the call of thread t has returned what the same call returns when it
\* runs alone
ReturnsAsAlone(t) ==
    LET th == threads[t]
    IN  th.pc = "returned" =>
          IF th.op = "calculate_rankings"
          THEN th.rankings
                 = calculate_rankings(th.results, th.derogation_athletes)
          ELSE th.qualified = check_qualification_criteria(th.results)

\* no step writes the configuration, the points table or the arguments of
\* a call that is running
WritesNoSharedState ==
    /\ config' = config
    /\ points_table' = points_table
    /\ \A t \in Threads :
          threads[t].pc # "idle" =>
              /\ threads'[t].results = threads[t].results
              /\ threads'[t].derogation_athletes
                    = threads[t].derogation_athletes

----------------------------------------------------------------------------
(* RulesetValidator (validators.py) and CustomRuleSet (rulesets.py)        *)
(*                                                                         *)
(* A configuration document is a dict.  The values whose type the          *)
(* validator tests with isinstance are written [type, value]; a message    *)
(* built by an f-string is the tuple of its parts.                         *)

json_int(v) == [type |-> "int", value |-> v]
json_list(v) == [type |-> "list", value |-> v]
\* a string in the place of a number or of a list: v is the number its
\* digits spell, or the list of the words it holds
json_str(v) == [type |-> "str", value |-> v]

\* ValidationResult(is_valid, errors, warnings)
ValidationResult(is_valid, errors, warnings) ==
    [is_valid |-> is_valid, errors |-> errors, warnings |-> warnings]

\* the keys of a dict in the order of iteration (one order is taken)
RECURSIVE keys(_)
keys(S) ==
    IF S = {} THEN <<>>
    ELSE LET k == CHOOSE x \in S : TRUE IN <<k>> \o keys(S \ {k})

\* the concatenation of the lists of a list
RECURSIVE flatten(_)
flatten(ss) == IF ss = <<>> THEN <<>> ELSE Head(ss) \o flatten(Tail(ss))

\* the list a loop over s builds when it extends it by f(x) for each x
extend(s, f(_)) == flatten([i \in 1..Len(s) |-> f(s[i])])

\* validate_scoring_config: the errors one discipline adds
discipline_errors(scoring, discipline) ==
    IF discipline \notin DOMAIN scoring
    THEN <<<<"Missing configuration in scoring section", discipline>>>>
    ELSE
      LET discipline_config == scoring[discipline]
      IN  (IF "base_points" \notin DOMAIN discipline_config
           THEN <<<<"Missing 'base_points'", discipline>>>> ELSE <<>>)
          \o
          (IF "ranking_points" \notin DOMAIN discipline_config
           THEN <<<<"Missing 'ranking_points'", discipline>>>>
           ELSE IF ~\E key \in {"provincial", "world_cup"} :
                      key \in DOMAIN discipline_config.ranking_points
           THEN <<<<"Missing primary competition level", discipline>>>>
           ELSE <<>>)

\* validate_scoring_config: the warnings one discipline adds
discipline_warnings(scoring, discipline) ==
    IF discipline \notin DOMAIN scoring
       \/ "ranking_points" \notin DOMAIN scoring[discipline]
    THEN <<>>
    ELSE
      LET ranking_points == scoring[discipline].ranking_points
          unusual(level) ==
              IF "multiplier" \in DOMAIN ranking_points[level]
                 /\ ~(LET m == ranking_points[level].multiplier
                      IN  0 < m.num /\ m.num <= 2 * m.den)
              THEN <<<<"Unusual multiplier value", level, discipline>>>>
              ELSE <<>>
      IN  extend(keys(DOMAIN ranking_points), unusual)

\* RulesetValidator.validate_scoring_config
validate_scoring_config(cfg) ==
    IF "scoring" \notin DOMAIN cfg
    THEN ValidationResult(FALSE,
             <<<<"Missing 'scoring' section in configuration">>>>, <<>>)
    ELSE
      LET disciplines == <<"lead", "boulder", "speed">>
          errs(d) == discipline_errors(cfg.scoring, d)
          warns(d) == discipline_warnings(cfg.scoring, d)
          errors == extend(disciplines, errs)
      IN  ValidationResult(Len(errors) = 0, errors,
                           extend(disciplines, warns))

\* RulesetValidator.validate_ranking_config
validate_ranking_config(cfg) ==
    IF "ranking" \notin DOMAIN cfg
    THEN ValidationResult(FALSE,
             <<<<"Missing 'ranking' section in configuration">>>>, <<>>)
    ELSE
      LET ranking == cfg.ranking
          errors ==
            (IF "best_n_results" \notin DOMAIN ranking
             THEN <<<<"Missing 'best_n_results' in ranking configuration">>>>
             ELSE IF ranking.best_n_results.type # "int"
                     \/ ranking.best_n_results.value <= 0
             THEN <<<<"Invalid 'best_n_results' value">>>>
             ELSE <<>>)
            \o
            (IF "tiebreak" \notin DOMAIN ranking
             THEN <<<<"Missing 'tiebreak' configuration">>>>
             ELSE IF "methods" \notin DOMAIN ranking.tiebreak
             THEN <<<<"Missing 'methods' in tiebreak configuration">>>>
             ELSE IF ranking.tiebreak.methods.type # "list"
             THEN <<<<"Tiebreak 'methods' must be a list">>>>
             ELSE
               LET methods == ranking.tiebreak.methods.value
                   valid_methods == {"head_to_head", "most_recent",
                                     "countback", "most_provincial"}
                   invalid_methods ==
                       {methods[i] : i \in 1..Len(methods)} \ valid_methods
               IN  IF invalid_methods # {}
                   THEN <<<<"Invalid tiebreak methods", invalid_methods>>>>
                   ELSE <<>>)
      IN  ValidationResult(Len(errors) = 0, errors, <<>>)

\* "not isinstance(x, (int, float)) or x <= 0"
not_positive_number(x) == x.type \notin {"int", "float"} \/ x.value <= 0

\* RulesetValidator.validate_qualification_criteria
validate_qualification_criteria(cfg) ==
    IF "qualification_criteria" \notin DOMAIN cfg
    THEN ValidationResult(FALSE,
             <<<<"Missing 'qualification_criteria' section">>>>, <<>>)
    ELSE
      LET criteria == cfg.qualification_criteria
          required_fields == <<"min_competitions", "min_points">>
          basic(field) ==
              IF field \notin DOMAIN criteria
              THEN <<<<"Missing field in qualification criteria", field>>>>
              ELSE IF not_positive_number(criteria[field])
              THEN <<<<"Invalid value - must be a positive number", field>>>>
              ELSE <<>>
          categories ==
              IF "category_requirements" \in DOMAIN criteria
              THEN keys(DOMAIN criteria.category_requirements) ELSE <<>>
          category_errors(category) ==
              LET reqs == criteria.category_requirements[category]
                  one(field) ==
                      IF field \in DOMAIN reqs
                         /\ not_positive_number(reqs[field])
                      THEN <<<<"Invalid value for category", field, category>>>>
                      ELSE <<>>
              IN  extend(required_fields, one)
          category_warnings(category) ==
              LET reqs == criteria.category_requirements[category]
                  one(field) ==
                      IF field \notin DOMAIN reqs
                      THEN <<<<"Missing field in category requirements",
                               field, category>>>>
                      ELSE <<>>
              IN  extend(required_fields, one)
          errors == extend(required_fields, basic)
                    \o extend(categories, category_errors)
      IN  ValidationResult(Len(errors) = 0, errors,
                           extend(categories, category_warnings))

\* validate_derogation_config for which a warning makes the section
\* invalid as an error does
validate_derogation_config_counts_warnings(cfg) ==
    IF "derogation" \notin DOMAIN cfg
    THEN ValidationResult(FALSE, <<>>,
             <<<<"Missing 'derogation' section">>>>)
    ELSE
      LET derogation == cfg.derogation
          required_rule_fields ==
              <<"allow_participation", "points_handling", "ranking_display">>
          missing(field) ==
              IF field \notin DOMAIN derogation.rules
              THEN <<<<"Missing field in derogation rules", field>>>>
              ELSE <<>>
          errors ==
            (IF "enabled" \notin DOMAIN derogation
             THEN <<<<"Missing 'enabled' flag in derogation configuration">>>>
             ELSE <<>>)
            \o
            (IF ~Get(derogation, "enabled", FALSE) THEN <<>>
             ELSE IF "rules" \notin DOMAIN derogation
             THEN <<<<"Missing 'rules' in derogation configuration">>>>
             ELSE extend(required_rule_fields, missing)
                  \o (IF Get(derogation.rules, "points_handling", "None")
                           \notin {"redistribute", "keep", "zero"}
                      THEN <<<<"Invalid points handling method">>>>
                      ELSE <<>>))
      IN  ValidationResult(Len(errors) = 0, errors, <<>>)

\* RulesetValidator.validate_derogation_config
validate_derogation_config(cfg) ==
    IF "derogation" \notin DOMAIN cfg
    THEN ValidationResult(TRUE, <<>>,
             <<<<"Missing 'derogation' section">>>>)
    ELSE
      LET derogation == cfg.derogation
          required_rule_fields ==
              <<"allow_participation", "points_handling", "ranking_display">>
          missing(field) ==
              IF field \notin DOMAIN derogation.rules
              THEN <<<<"Missing field in derogation rules", field>>>>
              ELSE <<>>
          errors ==
            (IF "enabled" \notin DOMAIN derogation
             THEN <<<<"Missing 'enabled' flag in derogation configuration">>>>
             ELSE <<>>)
            \o
            (IF ~Get(derogation, "enabled", FALSE) THEN <<>>
             ELSE IF "rules" \notin DOMAIN derogation
             THEN <<<<"Missing 'rules' in derogation configuration">>>>
             ELSE extend(required_rule_fields, missing)
                  \o (IF Get(derogation.rules, "points_handling", "None")
                           \notin {"redistribute", "keep", "zero"}
                      THEN <<<<"Invalid points handling method">>>>
                      ELSE <<>>))
      IN  ValidationResult(Len(errors) = 0, errors, <<>>)

\* RulesetValidator.validate_ruleset
validate_ruleset(cfg) ==
    LET prefixed(section_name, msgs) ==
            [i \in 1..Len(msgs) |-> <<section_name, msgs[i]>>]
        scoring == validate_scoring_config(cfg)
        ranking == validate_ranking_config(cfg)
        qualification == validate_qualification_criteria(cfg)
        derogation == validate_derogation_config(cfg)
        section_errors(name, result) ==
            IF ~result.is_valid THEN prefixed(name, result.errors) ELSE <<>>
        all_errors ==
            section_errors("scoring", scoring)
            \o section_errors("ranking", ranking)
            \o section_errors("qualification", qualification)
            \o section_errors("derogation", derogation)
        required_info == <<"name", "description", "features">>
        info(field) ==
            IF field \notin DOMAIN cfg
            THEN <<<<"Missing field in ruleset information", field>>>>
            ELSE <<>>
        all_warnings ==
            prefixed("scoring", scoring.warnings)
            \o prefixed("ranking", ranking.warnings)
            \o prefixed("qualification", qualification.warnings)
            \o prefixed("derogation", derogation.warnings)
            \o extend(required_info, info)
    IN  ValidationResult(Len(all_errors) = 0, all_errors, all_warnings)

\* CustomRuleSet(config_dict=...) raising also when the validation result
\* carries a warning
CustomRuleSet_rejects_warnings(config_dict) ==
    IF DOMAIN config_dict = {}
    THEN [kind |-> "raise", exception |-> "ValueError"]
    ELSE
      LET result == validate_ruleset(config_dict)
      IN  IF ~result.is_valid \/ result.warnings # <<>>
          THEN [kind |-> "raise", exception |-> "ValueError"]
          ELSE [kind |-> "return",
                value |-> [config |-> config_dict,
                           point_system |->
                               [base_config |-> config_dict,
                                scoring_config |->
                                    Get(config_dict, "scoring", <<>>)]]]

\* CustomRuleSet.__init__ with config_dict and no config_path, and the
\* _validate_config it calls: an empty dict counts as no configuration
CustomRuleSet(config_dict) ==
    IF DOMAIN config_dict = {}
    THEN [kind |-> "raise", exception |-> "ValueError"]
    ELSE
      LET result == validate_ruleset(config_dict)
      IN  IF ~result.is_valid
          THEN [kind |-> "raise", exception |-> "ValueError"]
          ELSE [kind |-> "return",
                value |-> [config |-> config_dict,
                           point_system |->
                               [base_config |-> config_dict,
                                scoring_config |->
                                    Get(config_dict, "scoring", <<>>)]]]

\* inputs: the documents are put together from variants of their sections;
\* <<>> stands for a section that is absent
DisciplineConfig ==
    [base_points |-> ("1" :> 100),
     ranking_points |->
         [provincial |-> ("1" :> 100),
          regional |-> [multiplier |-> [num |-> 1, den |-> 2]]]]

ScoringVariants ==
    {<<>>,
     [scoring |-> [lead |-> DisciplineConfig, boulder |-> DisciplineConfig,
                   speed |-> DisciplineConfig]],
     [scoring |-> [lead |-> DisciplineConfig, boulder |-> DisciplineConfig]],
     [scoring |-> [lead |-> [ranking_points |->
                                DisciplineConfig.ranking_points],
                   boulder |-> DisciplineConfig, speed |-> DisciplineConfig]],
     [scoring |-> [lead |-> [base_points |-> ("1" :> 100)],
                   boulder |-> DisciplineConfig, speed |-> DisciplineConfig]],
     [scoring |-> [lead |-> [base_points |-> ("1" :> 100),
                             ranking_points |->
                                 [regional |-> [multiplier |->
                                     [num |-> 1, den |-> 2]]]],
                   boulder |-> DisciplineConfig, speed |-> DisciplineConfig]],
     [scoring |-> [lead |-> [base_points |-> ("1" :> 100),
                             ranking_points |->
                                 [provincial |-> ("1" :> 100),
                                  regional |-> [multiplier |->
                                     [num |-> 5, den |-> 2]]]],
                   boulder |-> DisciplineConfig, speed |-> DisciplineConfig]]}

MethodsVariants ==
    {json_list(<<"head_to_head", "most_recent">>),
     json_list(<<"countback">>),
     json_list(<<>>),
     json_list(<<"countback", "coin_toss">>),
     json_str(<<"countback">>)}

RankingVariants ==
    {<<>>}
    \cup {[ranking |-> [best_n_results |-> n, tiebreak |-> [methods |-> m]]] :
             n \in {json_int(3), json_int(0), json_str(3)},
             m \in MethodsVariants}
    \cup {[ranking |-> [tiebreak |-> [methods |-> m]]] : m \in MethodsVariants}
    \cup {[ranking |-> [best_n_results |-> json_int(3)]],
          [ranking |-> [best_n_results |-> json_int(3),
                        tiebreak |-> [description |-> "none"]]]}

QualificationVariants ==
    {<<>>,
     [qualification_criteria |->
         [min_competitions |-> json_int(3), min_points |-> json_int(100)]],
     [qualification_criteria |-> [min_competitions |-> json_int(3)]],
     [qualification_criteria |->
         [min_competitions |-> json_int(3), min_points |-> json_int(0)]],
     [qualification_criteria |->
         [min_competitions |-> json_int(3), min_points |-> json_int(100),
          category_requirements |->
              [junior |-> [min_competitions |-> json_int(2)]]]],
     [qualification_criteria |->
         [min_competitions |-> json_int(3), min_points |-> json_int(100),
          category_requirements |->
              [junior |-> [min_competitions |-> json_int(2),
                           min_points |-> json_str(50)]]]]}

DerogationRules(h) ==
    [allow_participation |-> TRUE, points_handling |-> h,
     ranking_display |-> "separate", display_note |-> "derogation"]

DerogationVariants ==
    {<<>>,
     [derogation |-> [enabled |-> FALSE]],
     [derogation |-> [rules |-> DerogationRules("keep")]],
     [derogation |-> [enabled |-> TRUE]],
     [derogation |-> [enabled |-> TRUE,
                      rules |-> [points_handling |-> "zero"]]],
     [derogation |-> [enabled |-> TRUE, rules |-> DerogationRules("drop")]],
     [derogation |-> [enabled |-> TRUE,
                      rules |-> DerogationRules("redistribute")]]}

InfoVariants ==
    {<<>>, [name |-> "Custom", description |-> "custom rules",
            features |-> <<>>]}

Documents ==
    {s @@ r @@ q @@ d @@ i :
        s \in ScoringVariants, r \in RankingVariants,
        q \in QualificationVariants, d \in DerogationVariants,
        i \in InfoVariants}

\* RulesetValidator.validate_ruleset(config)
ValidateRuleset ==
    /\ pc = "idle"
    /\ outcome' = [kind |-> "return", value |-> validate_ruleset(config)]
    /\ pc' = "validate_ruleset"
    /\ UNCHANGED <<rules, config, results, derogation_athletes, rankings,
                   prev_rankings, season_points, qualified, ties_in,
                   ties_out, points_table, call, threads>>

\* RulesetValidator.validate_ranking_config(config)
ValidateRankingConfig ==
    /\ pc = "idle"
    /\ outcome' = [kind |-> "return",
                   value |-> validate_ranking_config(config)]
    /\ pc' = "validate_ranking_config"
    /\ UNCHANGED <<rules, config, results, derogation_athletes, rankings,
                   prev_rankings, season_points, qualified, ties_in,
                   ties_out, points_table, call, threads>>

\* CustomRuleSet(config_dict=config)
ConstructCustomRuleSet ==
    /\ pc = "idle"
    /\ outcome' = CustomRuleSet(config)
    /\ pc' = "CustomRuleSet"
    /\ UNCHANGED <<rules, config, results, derogation_athletes, rankings,
                   prev_rankings, season_points, qualified, ties_in,
                   ties_out, points_table, call, threads>>

\* RulesetValidator.validate_scoring_config(config)
ValidateScoringConfig ==
    /\ pc = "idle"
    /\ outcome' = [kind |-> "return",
                   value |-> validate_scoring_config(config)]
    /\ pc' = "validate_scoring_config"
    /\ UNCHANGED <<rules, config, results, derogation_athletes, rankings,
                   prev_rankings, season_points, qualified, ties_in,
                   ties_out, points_table, call, threads>>

\* RulesetValidator.validate_qualification_criteria(config)
ValidateQualificationCriteria ==
    /\ pc = "idle"
    /\ outcome' = [kind |-> "return",
                   value |-> validate_qualification_criteria(config)]
    /\ pc' = "validate_qualification_criteria"
    /\ UNCHANGED <<rules, config, results, derogation_athletes, rankings,
                   prev_rankings, season_points, qualified, ties_in,
                   ties_out, points_table, call, threads>>

\* RulesetValidator.validate_derogation_config(config)
ValidateDerogationConfig ==
    /\ pc = "idle"
    /\ outcome' = [kind |-> "return",
                   value |-> validate_derogation_config(config)]
    /\ pc' = "validate_derogation_config"
    /\ UNCHANGED <<rules, config, results, derogation_athletes, rankings,
                   prev_rankings, season_points, qualified, ties_in,
                   ties_out, points_table, call, threads>>

InitValidate ==
    /\ rules = "Custom"
    /\ config \in Documents
    /\ results = <<>>
    /\ derogation_athletes = {}
    /\ rankings = <<>>
    /\ prev_rankings = <<>>
    /\ pc = "idle"
    /\ season_points = 0
    /\ qualified = FALSE
    /\ ties_in = <<>>
    /\ ties_out = <<>>
    /\ points_table = <<>>
    /\ call = <<>>
    /\ outcome = <<>>
    /\ threads = [t \in Threads |-> IdleThread]

NextValidate ==
    \/ ValidateRuleset
    \/ ValidateScoringConfig
    \/ ValidateRankingConfig
    \/ ValidateQualificationCriteria
    \/ ValidateDerogationConfig
    \/ ConstructCustomRuleSet

SpecValidate == InitValidate /\ [][NextValidate]_vars

----------------------------------------------------------------------------
(* Properties of the validation, checked under SpecValidate *)

\* C16: the construction of a CustomRuleSet raises exactly if
\* validate_ruleset reports at least one error for the document; a
\* document with warnings only is accepted and the ruleset holds it.
C16_ErrorsBlockWarningsDoNot ==
    pc = "CustomRuleSet" =>
        /\ outcome.kind = "raise"
              <=> validate_ruleset(config).errors # <<>>
        /\ outcome.kind = "return" => outcome.value.config = config

\* C16 witness: a document for which validate_ruleset reports several
\* warnings (no derogation section, no name, an unusual multiplier) and no
\* error has been accepted.
C16_Witness ==
    /\ pc = "CustomRuleSet"
    /\ outcome.kind = "return"
    /\ Len(validate_ruleset(config).warnings) >= 5
    /\ validate_ruleset(config).errors = <<>>

\* the ranking section is as the specification requires it
KnownTiebreakMethods ==
    {"head_to_head", "most_recent", "countback", "most_provincial"}

RankingSectionWellFormed ==
    /\ "ranking" \in DOMAIN config
    /\ "best_n_results" \in DOMAIN config.ranking
    /\ config.ranking.best_n_results.type = "int"
    /\ config.ranking.best_n_results.value > 0
    /\ "tiebreak" \in DOMAIN config.ranking
    /\ "methods" \in DOMAIN config.ranking.tiebreak
    /\ config.ranking.tiebreak.methods.type = "list"
    /\ config.ranking.tiebreak.methods.value # <<>>
    /\ \A k \in 1..Len(config.ranking.tiebreak.methods.value) :
          config.ranking.tiebreak.methods.value[k] \in KnownTiebreakMethods

\* C17: validate_ranking_config reports the configuration valid only if
\* best_n_results is a positive integer and methods is a non-empty list of
\* known methods, and reports an error in every other case.
C17_ValidOnlyIfWellFormed ==
    pc = "validate_ranking_config" =>
        /\ outcome.value.is_valid => RankingSectionWellFormed
        /\ ~RankingSectionWellFormed => outcome.value.errors # <<>>

----------------------------------------------------------------------------
(* DynamicPointSystem (rulesets.py) and EnhancedScoringManager             *)
(* (competitions/scoring.py)                                               *)
(*                                                                         *)
(* Floats are exact fractions [num, den], as in get_points_table.  The     *)
(* inputs are chosen so that a product lies at a half only when every      *)
(* factor of it is a binary fraction, where the float product is exact.    *)

to_float(v) == [num |-> v, den |-> 1]

\* x * y on floats
float_prod(x, y) == [num |-> x.num * y.num, den |-> x.den * y.den]

\* round(x) on a float x >= 0: to the nearest integer, a half to the even
\* neighbour
round(x) ==
    LET q == x.num \div x.den
        r == x.num % x.den
    IN  IF 2 * r < x.den THEN q
        ELSE IF 2 * r > x.den THEN q + 1
        ELSE IF q % 2 = 0 THEN q ELSE q + 1

\* str(placement)
str(n) == CASE n = 1 -> "1" [] n = 2 -> "2" [] n = 3 -> "3" [] n = 4 -> "4"

\* _calculate_participant_factor with "<" in place of "<=" in its first
\* two tests
_calculate_participant_factor_exclusive(participant_count) ==
    IF participant_count < 10 THEN [num |-> 8, den |-> 10]
    ELSE IF participant_count < 20 THEN [num |-> 9, den |-> 10]
    ELSE IF participant_count >= 100 THEN [num |-> 11, den |-> 10]
    ELSE IF participant_count >= 50 THEN [num |-> 105, den |-> 100]
    ELSE [num |-> 1, den |-> 1]

\* DynamicPointSystem._calculate_participant_factor
_calculate_participant_factor(participant_count) ==
    IF participant_count <= 10 THEN [num |-> 8, den |-> 10]
    ELSE IF participant_count <= 20 THEN [num |-> 9, den |-> 10]
    ELSE IF participant_count >= 100 THEN [num |-> 11, den |-> 10]
    ELSE IF participant_count >= 50 THEN [num |-> 105, den |-> 100]
    ELSE [num |-> 1, den |-> 1]

\* DynamicPointSystem._apply_additional_factors
_apply_additional_factors(factors) ==
    LET finale ==
            IF Get(factors, "is_season_finale", FALSE)
            THEN [num |-> 12, den |-> 10] ELSE to_float(1)
        weather_multipliers ==
            [extreme_heat |-> [num |-> 11, den |-> 10],
             rain |-> [num |-> 115, den |-> 100],
             snow |-> [num |-> 12, den |-> 10],
             optimal |-> to_float(1)]
        weather ==
            IF "weather_condition" \in DOMAIN factors
            THEN Get(weather_multipliers, factors.weather_condition,
                     to_float(1))
            ELSE to_float(1)
        history ==
            IF Get(factors, "historical_importance", FALSE)
            THEN [num |-> 11, den |-> 10] ELSE to_float(1)
    IN  float_prod(float_prod(finale, weather), history)

\* the first part of DynamicPointSystem.calculate_points: the points of the
\* placement before any adjustment
table_points(placement, competition_level, discipline) ==
    LET discipline_config == Get(Get(config, "scoring", <<>>), discipline, <<>>)
        ranking_points == Get(discipline_config, "ranking_points", <<>>)
        level_table == Get(ranking_points, competition_level, <<>>)
        base_levels == {k \in DOMAIN ranking_points :
                           "multiplier" \notin DOMAIN ranking_points[k]}
    IN  IF "multiplier" \in DOMAIN level_table
        THEN IF base_levels # {}
             THEN float_mul(
                      Get(ranking_points[CHOOSE k \in base_levels : TRUE],
                          str(placement), 0),
                      level_table.multiplier)
             ELSE to_float(0)
        ELSE to_float(Get(level_table, str(placement), 0))

\* DynamicPointSystem.calculate_points; additional_factors is <<>> for None
dynamic_calculate_points(placement, competition_level, discipline, participant_count, competition_importance, additional_factors) ==
    LET points == table_points(placement, competition_level, discipline)
        weighted == float_prod(points, competition_importance)
        adjusted == float_prod(weighted,
                        _calculate_participant_factor(participant_count))
        final == IF DOMAIN additional_factors # {}
                 THEN float_prod(adjusted,
                          _apply_additional_factors(additional_factors))
                 ELSE adjusted
    IN  round(final)

\* EnhancedScoringManager.__init__ with no custom_config; None is "None"
EnhancedScoringManager(discipline, scoring_method, ruleset) ==
    IF scoring_method = "None"
    THEN \* _get_default_scoring_method reads self.ruleset, which is
         \* assigned further down
         [kind |-> "raise", exception |-> "AttributeError"]
    ELSE IF ruleset = "None"
    THEN \* self._get_default_ruleset is a method of ScoreCalculator only
         [kind |-> "raise", exception |-> "AttributeError"]
    ELSE IF discipline \notin {"lead", "boulder", "speed"}
    THEN \* _get_calculator
         [kind |-> "raise", exception |-> "ValueError"]
    ELSE [kind |-> "return",
          value |-> [discipline |-> discipline,
                     scoring_method |-> scoring_method,
                     ruleset |-> ruleset,
                     calculator |-> discipline]]

\* inputs
ClimbingDiscipline == {"lead", "boulder", "speed", "combined"}

ScoringMethod ==
    {"ifsc_lead", "ifsc_boulder", "ifsc_speed", "fqme_lead", "fqme_boulder",
     "custom"}

PointSystemConfig ==
    [scoring |-> [lead |-> [ranking_points |->
        [provincial |-> ("1" :> 500) @@ ("2" :> 20) @@ ("3" :> 7),
         regional |-> [multiplier |-> [num |-> 1, den |-> 2]]]]]]

ParticipantCounts == {10, 11, 15, 20, 21, 49, 50, 99, 100}

\* DynamicPointSystem.calculate_points(...)
DynamicCalculatePoints ==
    /\ pc = "idle"
    /\ \E placement \in 1..4,
          competition_level \in {"provincial", "regional", "national"},
          discipline \in {"lead", "speed"},
          participant_count \in ParticipantCounts,
          competition_importance \in {to_float(1), to_float(2)},
          additional_factors \in {<<>>, [is_season_finale |-> TRUE]} :
          /\ call' = [placement |-> placement,
                      competition_level |-> competition_level,
                      discipline |-> discipline,
                      participant_count |-> participant_count,
                      competition_importance |-> competition_importance,
                      additional_factors |-> additional_factors]
          /\ outcome' = [kind |-> "return",
                         value |-> dynamic_calculate_points(placement,
                             competition_level, discipline,
                             participant_count, competition_importance,
                             additional_factors)]
    /\ pc' = "DynamicPointSystem.calculate_points"
    /\ UNCHANGED <<rules, config, results, derogation_athletes, rankings,
                   prev_rankings, season_points, qualified, ties_in,
                   ties_out, points_table, threads>>

\* EnhancedScoringManager(discipline, scoring_method, ruleset)
ConstructScoringManager ==
    /\ pc = "idle"
    /\ \E discipline \in ClimbingDiscipline,
          scoring_method \in ScoringMethod \cup {"None"},
          ruleset \in {"FQMERules", "IFSCRules", "None"} :
          /\ call' = [discipline |-> discipline,
                      scoring_method |-> scoring_method,
                      ruleset |-> ruleset]
          /\ outcome' = EnhancedScoringManager(discipline, scoring_method,
                                               ruleset)
    /\ pc' = "EnhancedScoringManager"
    /\ UNCHANGED <<rules, config, results, derogation_athletes, rankings,
                   prev_rankings, season_points, qualified, ties_in,
                   ties_out, points_table, threads>>

InitScoring ==
    /\ rules = "Custom"
    /\ config = PointSystemConfig
    /\ results = <<>>
    /\ derogation_athletes = {}
    /\ rankings = <<>>
    /\ prev_rankings = <<>>
    /\ pc = "idle"
    /\ season_points = 0
    /\ qualified = FALSE
    /\ ties_in = <<>>
    /\ ties_out = <<>>
    /\ points_table = <<>>
    /\ call = <<>>
    /\ outcome = <<>>
    /\ threads = [t \in Threads |-> IdleThread]

NextScoring == DynamicCalculatePoints \/ ConstructScoringManager

SpecScoring == InitScoring /\ [][NextScoring]_vars

----------------------------------------------------------------------------
(* Properties of the point system and of the scoring manager, checked      *)
(* under SpecScoring                                                       *)

\* C19: asked for a discipline other than lead, boulder and speed, the
\* scoring manager returns a result and raises no exception.
C19_UnsupportedDisciplineDoesNotRaise ==
    (pc = "EnhancedScoringManager"
        /\ call.discipline \notin {"lead", "boulder", "speed"}
        /\ call.scoring_method # "None" /\ call.ruleset # "None")
    => outcome.kind = "return"

\* the participant-count factor as the specification gives it
StatedParticipantFactor(n) ==
    IF n <= 10 THEN [num |-> 8, den |-> 10]
    ELSE IF n <= 20 THEN [num |-> 9, den |-> 10]
    ELSE IF n < 50 THEN to_float(1)
    ELSE IF n < 100 THEN [num |-> 105, den |-> 100]
    ELSE [num |-> 11, den |-> 10]

\* C20: without additional factors the returned points are the table
\* points of the placement times the importance times the stated
\* participant-count factor, rounded to a nearest integer.
C20_ParticipantFactorAndRounding ==
    (pc = "DynamicPointSystem.calculate_points"
        /\ DOMAIN call.additional_factors = {}) =>
        IsNearestInteger(outcome.value,
            float_prod(
                float_prod(table_points(call.placement,
                               call.competition_level, call.discipline),
                           call.competition_importance),
                StatedParticipantFactor(call.participant_count)))

\* C20 witness: base 500, 15 participants, importance 1, no additional
\* factors: 450.
C20_Witness ==
    /\ pc = "DynamicPointSystem.calculate_points"
    /\ call.placement = 1 /\ call.competition_level = "provincial"
    /\ call.discipline = "lead"
    /\ call.participant_count = 15
    /\ call.competition_importance = to_float(1)
    /\ DOMAIN call.additional_factors = {}
    /\ outcome.value = 450

----------------------------------------------------------------------------
(* Attempt scoring (competitions/scoring.py): ScoreCalculator and the      *)
(* lead, boulder and speed calculators                                     *)
(*                                                                         *)
(* A calculator is the record self = [scoring_method, config] that         *)
(* ScoreCalculator.__init__ leaves.  A score is a float: num(n), or        *)
(* float_inf for float('inf').  An Optional list is a record [none, value].*)

MaxTries == 3

num(n) == [inf |-> FALSE, value |-> n]

float_inf == [inf |-> TRUE, value |-> 0]

None == [none |-> TRUE, value |-> <<>>]

Some(v) == [none |-> FALSE, value |-> v]

\* set(list)
set(s) == {s[i] : i \in DOMAIN s}

\* scoring_method.name.startswith('FQME')
name_startswith_FQME(scoring_method) ==
    scoring_method \in {"fqme_lead", "fqme_boulder"}

\* hold_reached.endswith('TOP'), over the holds of HoldsReached
endswith_TOP(hold_reached) == hold_reached = "TOP"

\* validate_attempt without the test of time_taken
validate_attempt_ignores_time(attempt) ==
    LET no_hold == attempt.hold_reached = ""
    IN  [is_valid |-> ~no_hold,
         issues |-> IF no_hold THEN <<"No hold reached specified">>
                    ELSE <<>>,
         warnings |-> IF attempt.is_top
                         /\ ~endswith_TOP(attempt.hold_reached)
                      THEN <<"Top marked but hold is not marked as TOP">>
                      ELSE <<>>]

\* ScoreCalculator.validate_attempt
validate_attempt(attempt) ==
    LET no_hold == attempt.hold_reached = ""
        bad_time == attempt.time_taken <= 0
    IN  [is_valid |-> ~no_hold /\ ~bad_time,
         issues |-> (IF no_hold THEN <<"No hold reached specified">>
                     ELSE <<>>)
                    \o (IF bad_time THEN <<"Invalid time taken">>
                        ELSE <<>>),
         warnings |-> IF attempt.is_top
                         /\ ~endswith_TOP(attempt.hold_reached)
                      THEN <<"Top marked but hold is not marked as TOP">>
                      ELSE <<>>]

\* LeadScoreCalculator.calculate_score that does not look at the clips
lead_calculate_score_ignores_clips(self, attempt, route_data) ==
    IF ~validate_attempt(attempt).is_valid
    THEN [score |-> num(0), valid |-> FALSE]
    ELSE
    LET holds == Get(route_data, "holds", <<>>)
        scoring_config == self.config.scoring.lead
        bonus ==
            scoring_config.base_points[
                IF name_startswith_FQME(self.scoring_method)
                THEN "plus_modifier_enhanced" ELSE "plus_modifier"]
        hold_value ==
            Get(holds, attempt.hold_reached, 0)
                + (IF attempt.plus_modifier THEN bonus ELSE 0)
    IN  [score |-> num(hold_value), valid |-> TRUE,
         hold_reached |-> attempt.hold_reached,
         plus |-> attempt.plus_modifier,
         time |-> attempt.time_taken,
         ruleset |-> self.scoring_method]

\* LeadScoreCalculator.calculate_score; the text of the issue is kept
\* apart from the set of clips it joins
lead_calculate_score(self, attempt, route_data) ==
    IF ~validate_attempt(attempt).is_valid
    THEN [score |-> num(0), valid |-> FALSE]
    ELSE
    LET holds == Get(route_data, "holds", <<>>)
        scoring_config == self.config.scoring.lead
        bonus ==
            scoring_config.base_points[
                IF name_startswith_FQME(self.scoring_method)
                THEN "plus_modifier_enhanced" ELSE "plus_modifier"]
        hold_value ==
            Get(holds, attempt.hold_reached, 0)
                + (IF attempt.plus_modifier THEN bonus ELSE 0)
        required_clips == Get(route_data, "required_clips", <<>>)
        missing_clips ==
            set(required_clips) \ set(attempt.clipping_points.value)
    IN  IF required_clips # <<>> /\ missing_clips # {}
        THEN [score |-> num(hold_value), valid |-> FALSE,
              issues |-> <<[text |-> "Missing clips",
                            clips |-> missing_clips]>>]
        ELSE [score |-> num(hold_value), valid |-> TRUE,
              hold_reached |-> attempt.hold_reached,
              plus |-> attempt.plus_modifier,
              time |-> attempt.time_taken,
              ruleset |-> self.scoring_method]

\* the deduction for tries under one entry of penalties
deduction(self, penalty_config, tries) ==
    Min(tries * penalty_config.value,
        penalty_config[IF name_startswith_FQME(self.scoring_method)
                       THEN "max_deduction_10_attempts"
                       ELSE "max_deduction"])

\* BoulderScoreCalculator.calculate_score that deducts for the tries
\* whether or not the top or the zone was reached
boulder_calculate_score_always_deducts(self, attempt, problem_data) ==
    IF ~validate_attempt(attempt).is_valid
    THEN [score |-> num(0), valid |-> FALSE]
    ELSE
    LET scoring_config == self.config.scoring.boulder
        top_points == scoring_config.points.top
        zone_points == scoring_config.points.zone
    IN  [tops |-> IF attempt.is_top THEN 1 ELSE 0,
         zones |-> IF attempt.zone_reached THEN 1 ELSE 0,
         top_attempts |-> attempt.num_tries_to_top,
         zone_attempts |-> attempt.num_tries_to_zone,
         valid |-> TRUE,
         ruleset |-> self.scoring_method,
         ranking_score |->
             (IF attempt.is_top THEN top_points ELSE 0)
             + (IF attempt.zone_reached THEN zone_points ELSE 0)
             - deduction(self, scoring_config.penalties.top_attempt,
                         attempt.num_tries_to_top)
             - deduction(self, scoring_config.penalties.zone_attempt,
                         attempt.num_tries_to_zone)]

\* BoulderScoreCalculator.calculate_score
boulder_calculate_score(self, attempt, problem_data) ==
    IF ~validate_attempt(attempt).is_valid
    THEN [score |-> num(0), valid |-> FALSE]
    ELSE
    LET scoring_config == self.config.scoring.boulder
        top_points == scoring_config.points.top
        zone_points == scoring_config.points.zone
        base == (IF attempt.is_top THEN top_points ELSE 0)
                + (IF attempt.zone_reached THEN zone_points ELSE 0)
        after_top ==
            IF attempt.is_top
            THEN base - deduction(self, scoring_config.penalties.top_attempt,
                                  attempt.num_tries_to_top)
            ELSE base
        ranking_score ==
            IF attempt.zone_reached
            THEN after_top
                 - deduction(self, scoring_config.penalties.zone_attempt,
                             attempt.num_tries_to_zone)
            ELSE after_top
    IN  [tops |-> IF attempt.is_top THEN 1 ELSE 0,
         zones |-> IF attempt.zone_reached THEN 1 ELSE 0,
         top_attempts |-> attempt.num_tries_to_top,
         zone_attempts |-> attempt.num_tries_to_zone,
         valid |-> TRUE,
         ruleset |-> self.scoring_method,
         ranking_score |-> ranking_score]

\* SpeedScoreCalculator.calculate_score that tests the split times before
\* the false start
speed_calculate_score_splits_first(self, attempt, route_data) ==
    IF ~validate_attempt(attempt).is_valid
    THEN [score |-> num(0), valid |-> FALSE]
    ELSE
    LET scoring_config == self.config.scoring.speed
        split_points == Get(route_data, "split_points", <<>>)
    IN  IF split_points # <<>>
           /\ (attempt.split_times.value = <<>>
               \/ Len(attempt.split_times.value) # Len(split_points))
        THEN [score |-> float_inf, valid |-> FALSE,
              reason |-> "Missing or invalid split times"]
        ELSE IF attempt.false_start
        THEN [score |-> float_inf, valid |-> FALSE,
              reason |-> "False start",
              reaction_time |-> attempt.reaction_time]
        ELSE [score |-> num(attempt.time_taken), valid |-> TRUE,
              reaction_time |-> attempt.reaction_time,
              split_times |-> attempt.split_times,
              lane |-> attempt.lane,
              follows_ifsc_rules |->
                  Get(scoring_config, "follows_ifsc_rules", TRUE)]

\* SpeedScoreCalculator.calculate_score; "not attempt.split_times" holds
\* of None and of the empty list
speed_calculate_score(self, attempt, route_data) ==
    IF ~validate_attempt(attempt).is_valid
    THEN [score |-> num(0), valid |-> FALSE]
    ELSE
    LET scoring_config == self.config.scoring.speed
        split_points == Get(route_data, "split_points", <<>>)
    IN  IF attempt.false_start
        THEN [score |-> float_inf, valid |-> FALSE,
              reason |-> "False start",
              reaction_time |-> attempt.reaction_time]
        ELSE IF split_points # <<>>
                /\ (attempt.split_times.value = <<>>
                    \/ Len(attempt.split_times.value) # Len(split_points))
        THEN [score |-> float_inf, valid |-> FALSE,
              reason |-> "Missing or invalid split times"]
        ELSE [score |-> num(attempt.time_taken), valid |-> TRUE,
              reaction_time |-> attempt.reaction_time,
              split_times |-> attempt.split_times,
              lane |-> attempt.lane,
              follows_ifsc_rules |->
                  Get(scoring_config, "follows_ifsc_rules", TRUE)]

\* inputs
AttemptConfig ==
    [scoring |->
        [lead |-> [base_points |-> [plus_modifier |-> 1,
                                    plus_modifier_enhanced |-> 2]],
         boulder |->
            [points |-> [top |-> 25, zone |-> 10],
             penalties |->
                [top_attempt |-> [value |-> 1, max_deduction |-> 2,
                                  max_deduction_10_attempts |-> 3],
                 zone_attempt |-> [value |-> 1, max_deduction |-> 1,
                                   max_deduction_10_attempts |-> 2]]],
         speed |-> [follows_ifsc_rules |-> TRUE]]]

HoldsReached == {"", "H1", "H9", "TOP"}

TimesTaken == {0, 5, 7}

RouteHolds == ("H1" :> 10) @@ ("TOP" :> 40)

ClipLists == {<<>>, <<"Q1">>, <<"Q2">>, <<"Q1", "Q2">>}

LeadRoutes ==
    {[holds |-> RouteHolds]}
        \cup {[holds |-> RouteHolds, required_clips |-> c] :
                 c \in {<<>>, <<"Q1">>, <<"Q1", "Q2">>}}

SplitTimes == {None, Some(<<>>), Some(<<3>>), Some(<<3, 4>>)}

SpeedRoutes ==
    {[name |-> "speed"]}
        \cup {[name |-> "speed", split_points |-> p] :
                 p \in {<<>>, <<"S1">>, <<"S1", "S2">>}}

Attempt(hold_reached, is_top, time_taken) ==
    [hold_reached |-> hold_reached, is_top |-> is_top,
     time_taken |-> time_taken]

\* LeadScoreCalculator(scoring_method, ruleset).calculate_score(attempt,
\* route_data); a clipping_points of None counts as the empty list
LeadCalculateScore ==
    /\ pc = "idle"
    /\ \E scoring_method \in {"ifsc_lead", "fqme_lead"},
          hold_reached \in HoldsReached, is_top \in BOOLEAN,
          time_taken \in {0, 5}, plus_modifier \in BOOLEAN,
          clipping_points \in {None} \cup {Some(c) : c \in ClipLists},
          route_data \in LeadRoutes :
          LET self == [scoring_method |-> scoring_method, config |-> config]
              attempt ==
                  Attempt(hold_reached, is_top, time_taken)
                      @@ [plus_modifier |-> plus_modifier,
                          clipping_points |-> clipping_points]
          IN  /\ call' = [self |-> self, attempt |-> attempt,
                          route_data |-> route_data]
              /\ outcome' = lead_calculate_score(self, attempt, route_data)
    /\ pc' = "LeadScoreCalculator.calculate_score"
    /\ UNCHANGED <<rules, config, results, derogation_athletes, rankings,
                   prev_rankings, season_points, qualified, ties_in,
                   ties_out, points_table, threads>>

\* BoulderScoreCalculator(scoring_method, ruleset).calculate_score(attempt,
\* problem_data)
BoulderCalculateScore ==
    /\ pc = "idle"
    /\ \E scoring_method \in {"ifsc_boulder", "fqme_boulder"},
          hold_reached \in {"", "H1", "TOP"}, is_top \in BOOLEAN,
          time_taken \in {0, 5}, zone_reached \in BOOLEAN,
          num_tries_to_zone \in 0..MaxTries,
          num_tries_to_top \in 0..MaxTries :
          LET self == [scoring_method |-> scoring_method, config |-> config]
              attempt ==
                  Attempt(hold_reached, is_top, time_taken)
                      @@ [zone_reached |-> zone_reached,
                          num_tries_to_zone |-> num_tries_to_zone,
                          num_tries_to_top |-> num_tries_to_top]
          IN  /\ call' = [self |-> self, attempt |-> attempt,
                          route_data |-> <<>>]
              /\ outcome' = boulder_calculate_score(self, attempt, <<>>)
    /\ pc' = "BoulderScoreCalculator.calculate_score"
    /\ UNCHANGED <<rules, config, results, derogation_athletes, rankings,
                   prev_rankings, season_points, qualified, ties_in,
                   ties_out, points_table, threads>>

\* SpeedScoreCalculator(scoring_method, ruleset).calculate_score(attempt,
\* route_data)
SpeedCalculateScore ==
    /\ pc = "idle"
    /\ \E hold_reached \in {"", "H1", "TOP"}, is_top \in BOOLEAN,
          time_taken \in TimesTaken, false_start \in BOOLEAN,
          split_times \in SplitTimes, route_data \in SpeedRoutes :
          LET self == [scoring_method |-> "ifsc_speed", config |-> config]
              attempt ==
                  Attempt(hold_reached, is_top, time_taken)
                      @@ [lane |-> "A", false_start |-> false_start,
                          reaction_time |-> "None",
                          split_times |-> split_times]
          IN  /\ call' = [self |-> self, attempt |-> attempt,
                          route_data |-> route_data]
              /\ outcome' = speed_calculate_score(self, attempt, route_data)
    /\ pc' = "SpeedScoreCalculator.calculate_score"
    /\ UNCHANGED <<rules, config, results, derogation_athletes, rankings,
                   prev_rankings, season_points, qualified, ties_in,
                   ties_out, points_table, threads>>

InitAttempts ==
    /\ rules \in {"FQME", "IFSC"}
    /\ config = AttemptConfig
    /\ results = <<>>
    /\ derogation_athletes = {}
    /\ rankings = <<>>
    /\ prev_rankings = <<>>
    /\ pc = "idle"
    /\ season_points = 0
    /\ qualified = FALSE
    /\ ties_in = <<>>
    /\ ties_out = <<>>
    /\ points_table = <<>>
    /\ call = <<>>
    /\ outcome = <<>>
    /\ threads = [t \in Threads |-> IdleThread]

NextAttempts ==
    \/ LeadCalculateScore
    \/ BoulderCalculateScore
    \/ SpeedCalculateScore

SpecAttempts == InitAttempts /\ [][NextAttempts]_vars

----------------------------------------------------------------------------
(* Properties of the attempt calculators, checked under SpecAttempts       *)

BoulderReturned == pc = "BoulderScoreCalculator.calculate_score"

LeadReturned == pc = "LeadScoreCalculator.calculate_score"

SpeedReturned == pc = "SpeedScoreCalculator.calculate_score"

PassesBasicValidation ==
    call.attempt.hold_reached # "" /\ call.attempt.time_taken > 0

\* the cap on a deduction that is in force for the calculator of the call
CapInForce(penalty_config) ==
    IF call.self.scoring_method = "fqme_boulder"
    THEN penalty_config.max_deduction_10_attempts
    ELSE penalty_config.max_deduction

TopDeduction ==
    LET p == config.scoring.boulder.penalties.top_attempt
        d == call.attempt.num_tries_to_top * p.value
    IN  IF d <= CapInForce(p) THEN d ELSE CapInForce(p)

ZoneDeduction ==
    LET p == config.scoring.boulder.penalties.zone_attempt
        d == call.attempt.num_tries_to_zone * p.value
    IN  IF d <= CapInForce(p) THEN d ELSE CapInForce(p)

\* C21 as stated: for every valid boulder attempt the ranking score is the
\* points of the top and of the zone reached, less the capped deduction
\* for the tries to the top and less the capped deduction for the tries
\* to the zone, whatever was reached.
C21_RankingScoreDeductsAlways ==
    (BoulderReturned /\ PassesBasicValidation) =>
        outcome.ranking_score =
            (IF call.attempt.is_top THEN config.scoring.boulder.points.top
             ELSE 0)
            + (IF call.attempt.zone_reached
               THEN config.scoring.boulder.points.zone ELSE 0)
            - TopDeduction - ZoneDeduction

\* C21 amended: the deduction for the tries to the top is made only when
\* the top was reached, and the one for the tries to the zone only when
\* the zone was reached.
C21_RankingScoreDeductsWhenReached ==
    (BoulderReturned /\ PassesBasicValidation) =>
        outcome.ranking_score =
            (IF call.attempt.is_top
             THEN config.scoring.boulder.points.top - TopDeduction ELSE 0)
            + (IF call.attempt.zone_reached
               THEN config.scoring.boulder.points.zone - ZoneDeduction
               ELSE 0)

\* C21 witness: a valid attempt that reached the zone and not the top,
\* after more tries than either cap allows for.
C21_Witness ==
    /\ BoulderReturned /\ PassesBasicValidation
    /\ ~call.attempt.is_top /\ call.attempt.zone_reached
    /\ call.attempt.num_tries_to_top = MaxTries
    /\ call.attempt.num_tries_to_zone = MaxTries
    /\ outcome.ranking_score =
           config.scoring.boulder.points.zone
               - CapInForce(config.scoring.boulder.penalties.zone_attempt)

\* the score the specification gives a lead attempt: the value of the
\* hold, 0 for an unknown hold, plus the bonus of the ruleset when the
\* plus modifier is set
StatedLeadScore ==
    LET a == call.attempt
        holds == call.route_data.holds
        bonus == IF call.self.scoring_method = "fqme_lead"
                 THEN config.scoring.lead.base_points.plus_modifier_enhanced
                 ELSE config.scoring.lead.base_points.plus_modifier
    IN  (IF a.hold_reached \in DOMAIN holds THEN holds[a.hold_reached]
         ELSE 0) + (IF a.plus_modifier THEN bonus ELSE 0)

\* the required clips that the attempt did not clip
MissingClips ==
    {c \in set(call.route_data.required_clips) :
        \A i \in DOMAIN call.attempt.clipping_points.value :
            call.attempt.clipping_points.value[i] # c}

\* C22: a lead attempt that passes basic validation on a route with
\* required clips is invalid, with an issue naming the missing clips,
\* exactly when a required clip is missing, and reports the score of the
\* hold reached either way.
C22_MissingClipsInvalidateKeepScore ==
    (LeadReturned /\ PassesBasicValidation
        /\ "required_clips" \in DOMAIN call.route_data
        /\ call.route_data.required_clips # <<>>) =>
        /\ outcome.score = num(StatedLeadScore)
        /\ outcome.valid = (MissingClips = {})
        /\ MissingClips # {} =>
              /\ "issues" \in DOMAIN outcome
              /\ \E i \in DOMAIN outcome.issues :
                    outcome.issues[i].clips = MissingClips

\* C22 witness: Q1 and Q2 required, only Q1 clipped, an unknown hold with
\* the plus modifier: invalid, and the score is the bonus alone.
C22_Witness ==
    /\ LeadReturned /\ PassesBasicValidation
    /\ "required_clips" \in DOMAIN call.route_data
    /\ call.route_data.required_clips = <<"Q1", "Q2">>
    /\ call.attempt.clipping_points = Some(<<"Q1">>)
    /\ call.attempt.hold_reached = "H9" /\ call.attempt.plus_modifier
    /\ call.self.scoring_method = "fqme_lead"
    /\ ~outcome.valid
    /\ outcome.score = num(2)
    /\ outcome.issues[1].clips = {"Q2"}

\* the route defines split points and the attempt's split times are
\* absent or of another length
SplitMismatch ==
    /\ "split_points" \in DOMAIN call.route_data
    /\ call.route_data.split_points # <<>>
    /\ \/ call.attempt.split_times.none
       \/ Len(call.attempt.split_times.value)
              # Len(call.route_data.split_points)

\* C23: a speed attempt that passes basic validation scores its time and
\* is valid unless it is a false start or its split times do not match
\* the route; then it is invalid with an infinite score and a reason, the
\* false start being the reason when both hold.
C23_SpeedScoreOrInvalid ==
    (SpeedReturned /\ PassesBasicValidation) =>
        IF call.attempt.false_start \/ SplitMismatch
        THEN /\ ~outcome.valid
             /\ outcome.score.inf
             /\ "reason" \in DOMAIN outcome
             /\ call.attempt.false_start => outcome.reason = "False start"
             /\ ~call.attempt.false_start =>
                   outcome.reason = "Missing or invalid split times"
        ELSE /\ outcome.valid
             /\ outcome.score = num(call.attempt.time_taken)

\* C23 witness: a false start whose split times do not match either.
C23_Witness ==
    /\ SpeedReturned /\ PassesBasicValidation
    /\ call.attempt.false_start /\ SplitMismatch
    /\ outcome.reason = "False start"

\* C24: in the three calculators an attempt with an empty hold_reached or
\* a time_taken <= 0 returns exactly {score: 0, valid: false}.
C24_InvalidAttemptShortCircuits ==
    ((LeadReturned \/ BoulderReturned \/ SpeedReturned)
        /\ ~PassesBasicValidation) =>
        outcome = [score |-> num(0), valid |-> FALSE]

\* C24 witness: a false start with time_taken = 0 and a hold reached.
C24_Witness ==
    /\ SpeedReturned
    /\ call.attempt.hold_reached # "" /\ call.attempt.time_taken <= 0
    /\ call.attempt.false_start
    /\ outcome = [score |-> num(0), valid |-> FALSE]

----------------------------------------------------------------------------
(* CustomRuleSet.handle_derogation (rulesets.py)                           *)

MaxRanked == 3

\* the loop of handle_derogation from index i on; the entries are updated
\* in place
RECURSIVE handle_derogation_loop(_, _, _)
handle_derogation_loop(rs, i, derog) ==
    IF i > Len(rs) THEN rs
    ELSE IF rs[i].athlete_id \in derog THEN
      LET derogation_rules == config.derogation.rules
          handling_method == derogation_rules.points_handling
          ranking == rs[i]
          original_points == ranking.points
          original_ranking == ranking.ranking
          candidates == {k \in 1..Len(rs) :
                            /\ rs[k].ranking > ranking.ranking
                            /\ rs[k].athlete_id \notin derog}
          handled ==
              IF handling_method = "redistribute"
              THEN IF candidates # {}
                   THEN LET next_athlete ==
                                rs[CHOOSE k \in candidates :
                                      \A m \in candidates : k <= m]
                        IN  Set(ranking, "points_source_athlete",
                                next_athlete.athlete_id)
                   ELSE ranking
              ELSE IF handling_method = "zero"
              THEN Set(ranking, "points", 0)
              ELSE ranking
          stored ==
              Set(Set(Set(Set(handled,
                  "under_derogation", TRUE),
                  "original_points", original_points),
                  "original_ranking", original_ranking),
                  "derogation_note", derogation_rules.display_note)
      IN  handle_derogation_loop([rs EXCEPT ![i] = stored], i + 1, derog)
    ELSE handle_derogation_loop(rs, i + 1, derog)

\* CustomRuleSet.handle_derogation
handle_derogation(rs, derog) ==
    IF ~Get(Get(config, "derogation", <<>>), "enabled", FALSE) THEN rs
    ELSE handle_derogation_loop(rs, 1, derog)

\* inputs: rankings of 1..MaxRanked athletes in the order of their rank,
\* with points that do not increase down the list
RankedPoints == {100, 50, 20}

RankingLists ==
    UNION {{[i \in 1..n |-> [athlete_id |-> i, points |-> p[i],
                             ranking |-> i]] :
               p \in {q \in [1..n -> RankedPoints] :
                         \A i \in 1..(n - 1) : q[i] >= q[i + 1]}} :
           n \in 1..MaxRanked}

CustomDerogationConfigs ==
    {[derogation |->
         [enabled |-> e,
          rules |-> [allow_participation |-> TRUE, points_handling |-> h,
                     ranking_display |-> "marked",
                     display_note |-> "derogation"]]] :
        e \in BOOLEAN, h \in {"redistribute", "zero", "keep"}}

\* CustomRuleSet.handle_derogation(rankings, derogation_athletes)
HandleDerogation ==
    /\ pc = "idle"
    /\ \E rs \in RankingLists :
          \E derog \in SUBSET {rs[i].athlete_id : i \in DOMAIN rs} :
              /\ call' = [rankings |-> rs, derogation_athletes |-> derog]
              /\ outcome' = handle_derogation(rs, derog)
    /\ pc' = "handle_derogation"
    /\ UNCHANGED <<rules, config, results, derogation_athletes, rankings,
                   prev_rankings, season_points, qualified, ties_in,
                   ties_out, points_table, threads>>

InitCustom ==
    /\ rules = "Custom"
    /\ config \in CustomDerogationConfigs
    /\ results = <<>>
    /\ derogation_athletes = {}
    /\ rankings = <<>>
    /\ prev_rankings = <<>>
    /\ pc = "idle"
    /\ season_points = 0
    /\ qualified = FALSE
    /\ ties_in = <<>>
    /\ ties_out = <<>>
    /\ points_table = <<>>
    /\ call = <<>>
    /\ outcome = <<>>
    /\ threads = [t \in Threads |-> IdleThread]

NextCustom == HandleDerogation

SpecCustom == InitCustom /\ [][NextCustom]_vars

----------------------------------------------------------------------------
(* Properties of CustomRuleSet.handle_derogation, checked under SpecCustom *)

\* the positions of the entries that are ranked after entry i and are not
\* under derogation
RecipientsAfter(i) ==
    {k \in DOMAIN call.rankings :
        /\ call.rankings[k].ranking > call.rankings[i].ranking
        /\ call.rankings[k].athlete_id \notin call.derogation_athletes}

\* C25: with derogation enabled and points_handling = redistribute, the
\* next athlete not under derogation after a derogated athlete ends with
\* the derogated athlete's original points and carries
\* points_source_athlete naming the derogated athlete.  Stated for a
\* single derogated athlete, where no second donor can overwrite the
\* first.
C25_RecipientReceivesPoints ==
    (pc = "handle_derogation"
        /\ config.derogation.enabled
        /\ config.derogation.rules.points_handling = "redistribute"
        /\ Cardinality(call.derogation_athletes) = 1) =>
        \A i \in DOMAIN call.rankings :
            (call.rankings[i].athlete_id \in call.derogation_athletes
                /\ RecipientsAfter(i) # {}) =>
                LET k == CHOOSE k \in RecipientsAfter(i) :
                            \A m \in RecipientsAfter(i) : k <= m
                IN  /\ outcome[k].points = call.rankings[i].points
                    /\ "points_source_athlete" \in DOMAIN outcome[k]
                    /\ outcome[k].points_source_athlete
                           = call.rankings[i].athlete_id

----------------------------------------------------------------------------
(* Further properties of calculate_rankings, checked under Spec            *)

\* the results of the batch in category c
ResultsIn(c) == SelectSeq(results, LAMBDA r : r.category = c)

\* the results of athlete a in category c
ResultsOf(a, c) == SelectSeq(ResultsIn(c), LAMBDA r : r.athlete_id = a)

AthletesIn(c) == {results[i].athlete_id :
                     i \in {k \in 1..Len(results) : results[k].category = c}}

\* C26: the returned categories are exactly the categories of the batch,
\* each once, and the list of a category has exactly one entry for every
\* athlete with a result in that category.
C26_OneEntryPerAthlete ==
    Returned =>
        /\ {rankings[c].category : c \in 1..Len(rankings)}
               = {results[i].category : i \in 1..Len(results)}
        /\ \A c, d \in 1..Len(rankings) :
              rankings[c].category = rankings[d].category => c = d
        /\ \A c \in 1..Len(rankings) :
              LET L == rankings[c].rankings
              IN  /\ {L[i].athlete_id : i \in 1..Len(L)}
                         = AthletesIn(rankings[c].category)
                  /\ \A i, j \in 1..Len(L) :
                        L[i].athlete_id = L[j].athlete_id => i = j

\* C26 witness: two categories, one of them with two athletes who are tied
\* at 0 points after derogation.
C26_Witness ==
    /\ Returned /\ DerogationEnabled
    /\ Len(rankings) = 2
    /\ \E c \in 1..Len(rankings) :
          LET L == rankings[c].rankings
          IN  /\ Len(L) = 2
              /\ L[1].under_derogation /\ L[2].under_derogation
              /\ L[1].points = 0 /\ L[2].points = 0

\* C27: with derogation enabled and a non-empty derogation list, the
\* entry at position p of every returned list has ranking = p.
C27_RankingIsPosition ==
    (Returned /\ DerogationEnabled /\ derogation_athletes # {}) =>
        \A L \in CategoryLists : \A p \in 1..Len(L) :
            /\ "ranking" \in DOMAIN L[p]
            /\ L[p].ranking = p

\* C28: under redistribute no athlete who is not under derogation ends
\* with fewer points than its original_points.
C28_RecipientNeverLoses ==
    (Returned /\ PointsHandling("redistribute")) =>
        \A L \in CategoryLists : \A i \in 1..Len(L) :
            ~L[i].under_derogation => L[i].points >= L[i].original_points

\* C28 witness: a recipient ends with more points than it earned.
C28_Witness ==
    /\ Returned /\ PointsHandling("redistribute")
    /\ \E L \in CategoryLists : \E i \in 1..Len(L) :
          /\ ~L[i].under_derogation
          /\ "points_source_athlete" \in DOMAIN L[i]
          /\ L[i].points > L[i].original_points

\* C29: under redistribute and zero every derogated athlete ends with 0
\* points, with original_points equal to the sum of its best N results,
\* with an original_ranking that places it after every athlete of more
\* season points and before every athlete of fewer, and without being
\* the recipient of points.
C29_DerogatedZeroedKeepsOriginal ==
    (Returned /\ (PointsHandling("redistribute") \/ PointsHandling("zero"))
        /\ derogation_athletes # {}) =>
        \A c \in 1..Len(rankings) :
            LET L == rankings[c].rankings
            IN  \A i \in 1..Len(L) :
                  L[i].athlete_id \in derogation_athletes =>
                      /\ L[i].points = 0
                      /\ L[i].original_points
                             = TopSum(ResultsOf(L[i].athlete_id,
                                                rankings[c].category),
                                      config.ranking.best_n_results)
                      /\ L[i].original_ranking \in 1..Len(L)
                      /\ \A j \in 1..Len(L) :
                            /\ L[j].original_points > L[i].original_points
                                  => L[j].original_ranking
                                         < L[i].original_ranking
                            /\ L[j].original_points < L[i].original_points
                                  => L[j].original_ranking
                                         > L[i].original_ranking
                      /\ "points_source_athlete" \notin DOMAIN L[i]

\* C29 witness: two derogated athletes ranked first and second before a
\* third athlete who receives points.
C29_Witness ==
    /\ Returned /\ PointsHandling("redistribute")
    /\ \E L \in CategoryLists :
          /\ Len(L) = 3
          /\ \E i, j, k \in 1..3 :
                /\ L[i].under_derogation /\ L[i].original_ranking = 1
                /\ L[j].under_derogation /\ L[j].original_ranking = 2
                /\ L[i].points = 0 /\ L[j].points = 0
                /\ L[i].original_points > 0
                /\ ~L[k].under_derogation
                /\ "points_source_athlete" \in DOMAIN L[k]

----------------------------------------------------------------------------
(* Further properties of the validation, checked under SpecValidate        *)

ValidatorReturned ==
    pc \in {"validate_ruleset", "validate_scoring_config",
            "validate_ranking_config", "validate_qualification_criteria",
            "validate_derogation_config"}

\* C30: every section validator and validate_ruleset return is_valid =
\* true exactly when the returned list of errors is empty, whatever the
\* warnings, and validate_derogation_config returns is_valid = true with
\* a warning for a document without derogation section.
C30_ValidIffNoErrors ==
    /\ ValidatorReturned =>
          (outcome.value.is_valid <=> outcome.value.errors = <<>>)
    /\ (pc = "validate_derogation_config" /\ "derogation" \notin DOMAIN config)
          => /\ outcome.value.is_valid
             /\ outcome.value.warnings # <<>>

\* C30 witness: validate_derogation_config has returned for a document
\* without derogation section: valid, no error, one warning.
C30_Witness ==
    /\ pc = "validate_derogation_config"
    /\ "derogation" \notin DOMAIN config
    /\ outcome.value.is_valid
    /\ outcome.value.errors = <<>>
    /\ Len(outcome.value.warnings) = 1

====
